---- MODULE Spec2Model ----
(***************************************************************************)
(* Stroke processing and glyph rendering of the handwriting SVG generator. *)
(*                                                                         *)
(* Numbers.  JavaScript numbers are modelled as exact extended rationals:  *)
(* a pair <<n, d>> with d > 0 and gcd(n, d) = 1 is the finite value n/d;   *)
(* <<1, 0>> is Infinity, <<-1, 0>> is -Infinity, <<0, 0>> is NaN and       *)
(* <<0, -1>> is an absent value (undefined / null).  Rounding of IEEE      *)
(* doubles is not modelled.  A distance (Math.hypot) is carried as its     *)
(* square, which orders the same way because distances are never negative. *)
(***************************************************************************)
EXTENDS Integers, Sequences, FiniteSets, TLC

\* ------------------------------------------------------------------------
\* Extended rational arithmetic (JavaScript number semantics, exact)
\* ------------------------------------------------------------------------

NaN == <<0, 0>>

PosInf == <<1, 0>>

NegInf == <<-1, 0>>

Undefined == <<0, -1>>

\* the value null where a number is expected
Null == <<0, -2>>

Abs(n) == IF n < 0 THEN -n ELSE n

RECURSIVE GCD(_, _)
GCD(a, b) == IF b = 0 THEN a ELSE GCD(b, a % b)

\* the finite value n/d (d # 0) in lowest terms with a positive denominator
Rat(n, d) ==
  IF d = 1 THEN <<n, 1>>
  ELSE LET s == IF d < 0 THEN -1 ELSE 1
           g == GCD(Abs(n), Abs(d))
       IN  <<(s * n) \div g, Abs(d) \div g>>

Int2Num(n) == <<n, 1>>

Zero == <<0, 1>>

One == <<1, 1>>

IsUndefined(a) == a[2] = -1

IsNull(a) == a[2] = -2

\* null or undefined
IsNullish(a) == a[2] < 0

IsNaN(a) == a[2] = 0 /\ a[1] = 0

IsFinite(a) == a[2] > 0

Sign(a) == IF a[1] > 0 THEN 1 ELSE IF a[1] < 0 THEN -1 ELSE 0

\* ToNumber: undefined converts to NaN in arithmetic, null to 0
ToNum(a) == IF IsUndefined(a) THEN NaN ELSE IF IsNull(a) THEN <<0, 1>> ELSE a

Neg(a0) == LET a == ToNum(a0) IN <<-a[1], a[2]>>

\* the operations take the finite case first; the rest is IEEE 754's rules
\* for NaN and the infinities
Add(a0, b0) ==
  IF a0[2] > 0 /\ b0[2] > 0
  THEN (IF a0[2] = 1 /\ b0[2] = 1 THEN <<a0[1] + b0[1], 1>>
        ELSE Rat(a0[1] * b0[2] + b0[1] * a0[2], a0[2] * b0[2]))
  ELSE LET a == ToNum(a0)
           b == ToNum(b0)
       IN  IF IsNaN(a) \/ IsNaN(b) THEN NaN
           ELSE IF ~IsFinite(a) THEN (IF ~IsFinite(b) /\ b # a THEN NaN ELSE a)
           ELSE b

Sub(a, b) == Add(a, Neg(b))

Mul(a0, b0) ==
  IF a0[2] > 0 /\ b0[2] > 0
  THEN (IF a0[2] = 1 /\ b0[2] = 1 THEN <<a0[1] * b0[1], 1>>
        ELSE Rat(a0[1] * b0[1], a0[2] * b0[2]))
  ELSE LET a == ToNum(a0)
           b == ToNum(b0)
       IN  IF IsNaN(a) \/ IsNaN(b) THEN NaN
           ELSE IF Sign(a) * Sign(b) = 0 THEN NaN
           ELSE <<Sign(a) * Sign(b), 0>>

\* JavaScript division never raises: x/0 is +-Infinity, 0/0 is NaN
Div(a0, b0) ==
  IF a0[2] > 0 /\ b0[2] > 0 /\ b0[1] # 0
  THEN Rat(a0[1] * b0[2], a0[2] * b0[1])
  ELSE LET a == ToNum(a0)
           b == ToNum(b0)
           sb == IF Sign(b) < 0 THEN -1 ELSE 1
       IN  IF IsNaN(a) \/ IsNaN(b) THEN NaN
           ELSE IF ~IsFinite(a) THEN (IF ~IsFinite(b) THEN NaN ELSE <<Sign(a) * sb, 0>>)
           ELSE IF ~IsFinite(b) THEN Zero
           ELSE IF a[1] = 0 THEN NaN
           ELSE <<Sign(a), 0>>

\* a < b ; every comparison with NaN is false
Lt(a0, b0) ==
  IF a0[2] > 0 /\ b0[2] > 0 THEN a0[1] * b0[2] < b0[1] * a0[2]
  ELSE LET a == ToNum(a0)
           b == ToNum(b0)
       IN  /\ ~IsNaN(a)
           /\ ~IsNaN(b)
           /\ a # b
           /\ (a = NegInf \/ b = PosInf)

Gt(a, b) == Lt(b, a)

Le(a0, b0) ==
  LET a == ToNum(a0)
      b == ToNum(b0)
  IN  ~IsNaN(a) /\ ~IsNaN(b) /\ (a = b \/ Lt(a, b))

\* Math.min / Math.max of two numbers
MathMin(a0, b0) ==
  LET a == ToNum(a0)
      b == ToNum(b0)
  IN  IF IsNaN(a) \/ IsNaN(b) THEN NaN ELSE IF Lt(b, a) THEN b ELSE a

MathMax(a0, b0) ==
  LET a == ToNum(a0)
      b == ToNum(b0)
  IN  IF IsNaN(a) \/ IsNaN(b) THEN NaN ELSE IF Lt(a, b) THEN b ELSE a

\* truthiness of a number: 0, NaN and absent values are falsy
Truthy(a) == ~IsNullish(a) /\ ~IsNaN(a) /\ a # Zero

\* a || b
OrElse(a, b) == IF Truthy(a) THEN a ELSE b

\* a ?? b
Coalesce(a, b) == IF IsNullish(a) THEN b ELSE a

Sq(a) == Mul(a, a)

\* Math.hypot(dx, dy), squared
HypotSq(dx, dy) == Add(Sq(dx), Sq(dy))

Half == Rat(1, 2)

\* ------------------------------------------------------------------------
\* Bounds of the model
\* ------------------------------------------------------------------------

\* longest point sequence given to simplifyStroke
MaxPoints == 4

\* most strokes of a stroke set
MaxStrokes == 2

\* most points of a stroke of a stroke set
MaxStrokePoints == 2

\* ------------------------------------------------------------------------
\* State
\* ------------------------------------------------------------------------

VARIABLES
  points,          \* simplifyStroke: the input point sequence
  tolerance,       \* simplifyStroke: tolerance of the latest call
  simplified,      \* simplifyStroke: result of the latest call
  prevTolerance,   \* simplifyStroke: tolerance of the call before
  prevSimplified,  \* simplifyStroke: result of the call before
  strokes,         \* stroke set given to normalize / applyVariation / extractConnectors
  bounds,          \* normalize: the bounds argument
  metrics,         \* normalize: the metrics argument (NullMetrics when absent)
  variationConfig, \* applyVariation: the config argument
  random,          \* applyVariation: the four Math.random() outcomes of the call
  op,              \* the operation applied last ("none" before)
  result,          \* what that operation returned
  pressure,        \* mapPressureToWidth: pressure of the latest call
  minWidth,        \* mapPressureToWidth: the minWidth argument
  maxWidth,        \* mapPressureToWidth: the maxWidth argument
  width,           \* mapPressureToWidth: result of the latest call
  prevPressure,    \* mapPressureToWidth: pressure of the call before
  prevWidth,       \* mapPressureToWidth: result of the call before
  characters,      \* fontData.characters: glyph key -> Character
  config,          \* the render configuration
  text,            \* value of the text input
  renderedSVG,     \* the document rendered last (NoDocument before)
  alert,           \* the alert raised by the latest renderText ("" when none)
  pc,              \* "idle", or "line" inside the loop of renderLine
  lines,           \* generateTextSVG: text.split("\n")
  lineIndex,       \* generateTextSVG: 0-based index of the line being laid out
  yPosition,       \* generateTextSVG: baseline of that line (startY of renderLine)
  svgContent,      \* generateTextSVG: elements of the lines laid out so far
  idx,             \* renderLine: index i of the next character of the line
  xPosition,       \* renderLine: the cursor
  lineSvg,         \* renderLine: elements written so far (its svgContent)
  missingChars,    \* renderLine: keys not found in the document
  prevConnector,   \* renderLine: connector of the glyph before (NullPrevConnector)
  lineResult,      \* what the latest renderLine returned
  metadata,        \* fontData.metadata: created, modified, version
  storage,         \* localStorage item "handwritingData" (NoStorage when absent)
  now,             \* the clock that new Date() reads
  fontCall,        \* the latest FontData call: operation, arguments, result
  currentChar,     \* capture tool: the key being drawn
  currentStrokes,  \* capture tool: the strokes committed for that key
  currentStroke,   \* capture tool: the stroke being drawn (NoStroke when null)
  isDrawing,       \* capture tool: a stroke is being drawn
  calls            \* StrokeProcessor calls of the latest handler that made any

simplifierVars == <<points, tolerance, simplified, prevTolerance, prevSimplified>>

processorVars == <<strokes, bounds, metrics, variationConfig, random, op, result>>

widthVars == <<pressure, minWidth, maxWidth, width, prevPressure, prevWidth>>

rendererVars == <<characters, config, text, renderedSVG, alert, pc, lines, lineIndex,
                  yPosition, svgContent, idx, xPosition, lineSvg, missingChars,
                  prevConnector, lineResult>>

fontVars == <<metadata, storage, now, fontCall>>

captureVars == <<currentChar, currentStrokes, currentStroke, isDrawing>>

vars == <<points, tolerance, simplified, prevTolerance, prevSimplified,
          strokes, bounds, metrics, variationConfig, random, op, result,
          pressure, minWidth, maxWidth, width, prevPressure, prevWidth,
          characters, config, text, renderedSVG, alert, pc, lines, lineIndex,
          yPosition, svgContent, idx, xPosition, lineSvg, missingChars,
          prevConnector, lineResult, metadata, storage, now, fontCall,
          currentChar, currentStrokes, currentStroke, isDrawing, calls>>

\* ------------------------------------------------------------------------
\* StrokeProcessor.simplifyStroke (Douglas-Peucker)
\* ------------------------------------------------------------------------

Point(px, py, pr, ts) ==
  [x |-> px, y |-> py, pressure |-> pr, timestamp |-> ts]

\* squared distance from point to the segment lineStart-lineEnd
perpendicularDistanceSq(point, lineStart, lineEnd) ==
  LET dx == Sub(lineEnd.x, lineStart.x)
      dy == Sub(lineEnd.y, lineStart.y)
      t  == Div(Add(Mul(Sub(point.x, lineStart.x), dx),
                    Mul(Sub(point.y, lineStart.y), dy)),
                Add(Mul(dx, dx), Mul(dy, dy)))
      closestX == IF Lt(t, Zero) THEN lineStart.x
                  ELSE IF Gt(t, One) THEN lineEnd.x
                  ELSE Add(lineStart.x, Mul(t, dx))
      closestY == IF Lt(t, Zero) THEN lineStart.y
                  ELSE IF Gt(t, One) THEN lineEnd.y
                  ELSE Add(lineStart.y, Mul(t, dy))
  IN  IF dx = Zero /\ dy = Zero
      THEN HypotSq(Sub(point.x, lineStart.x), Sub(point.y, lineStart.y))
      ELSE HypotSq(Sub(point.x, closestX), Sub(point.y, closestY))

\* variant: the loop stops one interior point early (i < pts.length - 2)
RECURSIVE FindMaxShort(_, _, _, _)
FindMaxShort(pts, i, maxDistSq, maxIndex) ==
  IF i >= Len(pts) - 2 THEN <<maxDistSq, maxIndex>>
  ELSE LET distSq == perpendicularDistanceSq(pts[i + 1], pts[1], pts[Len(pts)])
       IN  IF Gt(distSq, maxDistSq)
           THEN FindMaxShort(pts, i + 1, distSq, i)
           ELSE FindMaxShort(pts, i + 1, maxDistSq, maxIndex)

\* the for loop of simplify: i, maxIndex are 0-based indices into pts;
\* the result is <<maxDist squared, maxIndex>>
RECURSIVE FindMax(_, _, _, _)
FindMax(pts, i, maxDistSq, maxIndex) ==
  IF i >= Len(pts) - 1 THEN <<maxDistSq, maxIndex>>
  ELSE LET distSq == perpendicularDistanceSq(pts[i + 1], pts[1], pts[Len(pts)])
       IN  IF Gt(distSq, maxDistSq)
           THEN FindMax(pts, i + 1, distSq, i)
           ELSE FindMax(pts, i + 1, maxDistSq, maxIndex)

\* arr.slice(from, to) with 0-based from (inclusive) and to (exclusive)
Slice(arr, from, to) == SubSeq(arr, from + 1, to)

\* maxDist > tol, decided on the squares (tol >= 0, maxDist >= 0)
ExceedsTolerance(maxDistSq, tol) == Gt(maxDistSq, Sq(tol))

\* variant: a collapsed span ends at the point before the last one
RECURSIVE simplifyLosesLast(_, _)
simplifyLosesLast(pts, tol) ==
  IF Len(pts) <= 2 THEN pts
  ELSE LET m == FindMax(pts, 1, Zero, 0)
           maxIndex == m[2]
       IN  IF ExceedsTolerance(m[1], tol)
           THEN LET left  == simplifyLosesLast(Slice(pts, 0, maxIndex + 1), tol)
                    right == simplifyLosesLast(Slice(pts, maxIndex, Len(pts)), tol)
                IN  Slice(left, 0, Len(left) - 1) \o right
           ELSE <<pts[1], pts[Len(pts) - 1]>>

\* variant: the split point is kept by both halves (left.concat(right))
RECURSIVE simplifyKeepsSplitTwice(_, _)
simplifyKeepsSplitTwice(pts, tol) ==
  IF Len(pts) <= 2 THEN pts
  ELSE LET m == FindMax(pts, 1, Zero, 0)
           maxIndex == m[2]
       IN  IF ExceedsTolerance(m[1], tol)
           THEN simplifyKeepsSplitTwice(Slice(pts, 0, maxIndex + 1), tol)
                  \o simplifyKeepsSplitTwice(Slice(pts, maxIndex, Len(pts)), tol)
           ELSE <<pts[1], pts[Len(pts)]>>

RECURSIVE simplify(_, _)
simplify(pts, tol) ==
  IF Len(pts) <= 2 THEN pts
  ELSE LET m == FindMax(pts, 1, Zero, 0)
           maxIndex == m[2]
       IN  IF ExceedsTolerance(m[1], tol)
           THEN LET left  == simplify(Slice(pts, 0, maxIndex + 1), tol)
                    right == simplify(Slice(pts, maxIndex, Len(pts)), tol)
                IN  Slice(left, 0, Len(left) - 1) \o right
           ELSE <<pts[1], pts[Len(pts)]>>

simplifyStroke(pts, tol) ==
  IF Len(pts) <= 2 THEN pts ELSE simplify(pts, tol)

\* ------------------------------------------------------------------------
\* StrokeProcessor.calculateBounds / normalize / applyVariation /
\* extractConnectors
\* ------------------------------------------------------------------------

Stroke(pts) == [points |-> pts]

\* the points of all strokes, in order
RECURSIVE AllPoints(_)
AllPoints(strks) ==
  IF Len(strks) = 0 THEN <<>> ELSE strks[1].points \o AllPoints(Tail(strks))

Bounds(minX, minY, maxX, maxY) ==
  [minX |-> minX, minY |-> minY, maxX |-> maxX, maxY |-> maxY,
   width |-> Sub(maxX, minX), height |-> Sub(maxY, minY)]

\* the forEach loops of calculateBounds over the points pts[i..]
RECURSIVE BoundsLoop(_, _, _, _, _, _)
BoundsLoop(pts, i, minX, minY, maxX, maxY) ==
  IF i > Len(pts) THEN Bounds(minX, minY, maxX, maxY)
  ELSE BoundsLoop(pts, i + 1,
                  MathMin(minX, pts[i].x), MathMin(minY, pts[i].y),
                  MathMax(maxX, pts[i].x), MathMax(maxY, pts[i].y))

\* variant: the box of the first stroke only
calculateBoundsFirstStroke(strks) ==
  IF Len(strks) = 0 THEN Bounds(Zero, Zero, Zero, Zero)
  ELSE BoundsLoop(strks[1].points, 1, PosInf, PosInf, NegInf, NegInf)

calculateBounds(strks) ==
  IF Len(strks) = 0 THEN Bounds(Zero, Zero, Zero, Zero)
  ELSE BoundsLoop(AllPoints(strks), 1, PosInf, PosInf, NegInf, NegInf)

\* a metrics argument that is null or undefined: every field reads undefined
NullMetrics ==
  [ascender |-> Undefined, baseline |-> Undefined, emHeight |-> Undefined]

Metrics(ascender, baseline, emHeight) ==
  [ascender |-> ascender, baseline |-> baseline, emHeight |-> emHeight]

\* variant: the vertical origin is taken with || instead of ??
normalizeOriginYFalsy(bnds, mtr) == OrElse(mtr.ascender, bnds.minY)

\* const originY = metrics?.ascender ?? bounds.minY
normalizeOriginY(bnds, mtr) == Coalesce(mtr.ascender, bnds.minY)

\* emHeight = metrics?.emHeight || bounds.height || 1 ; scale = emHeight || 1
normalizeScale(bnds, mtr) ==
  OrElse(OrElse(OrElse(mtr.emHeight, bnds.height), One), One)

normalize(strks, bnds, mtr) ==
  IF Len(strks) = 0 THEN <<>>
  ELSE LET originY == normalizeOriginY(bnds, mtr)
           originX == bnds.minX
           scale   == normalizeScale(bnds, mtr)
       IN  [s \in 1..Len(strks) |->
             [points |->
               [j \in 1..Len(strks[s].points) |->
                 LET point == strks[s].points[j]
                 IN  [x |-> Div(Sub(point.x, originX), scale),
                      y |-> Div(Sub(point.y, originY), scale),
                      pressure |-> OrElse(point.pressure, Half),
                      timestamp |-> OrElse(point.timestamp, Zero)]]]]

\* Math.cos / Math.sin of an angle given in degrees; the angles of the model
\* are multiples of 90 degrees, where both are rational
CosDeg(a) == LET k == (a[1] \div 90) % 4
             IN  IF k = 0 THEN One ELSE IF k = 2 THEN Neg(One) ELSE Zero

SinDeg(a) == LET k == (a[1] \div 90) % 4
             IN  IF k = 1 THEN One ELSE IF k = 3 THEN Neg(One) ELSE Zero

\* a destructured config field with its default
WithDefault(v, dflt) == IF IsUndefined(v) THEN dflt ELSE v

VariationConfig(positionJitter, rotationRange, scaleRange) ==
  [positionJitter |-> positionJitter, rotationRange |-> rotationRange,
   scaleRange |-> scaleRange]

\* variant: the draw is not scaled by the range
SpreadUnscaled(r, range) == Mul(Sub(r, Half), Int2Num(2))

\* (Math.random() - 0.5) * 2 * range
Spread(r, range) == Mul(Mul(Sub(r, Half), Int2Num(2)), range)

\* the transform drawn by one call: rnd is the sequence of the four
\* Math.random() outcomes in call order; rotation is kept in degrees
VariationDraw(cfg, rnd) ==
  LET positionJitter == WithDefault(cfg.positionJitter, Rat(2, 100))
      rotationRange  == WithDefault(cfg.rotationRange, Int2Num(3))
      scaleRange     == WithDefault(cfg.scaleRange, Rat(5, 100))
  IN  [rotation |-> Spread(rnd[1], rotationRange),
       scale    |-> Add(One, Spread(rnd[2], scaleRange)),
       offsetX  |-> Spread(rnd[3], positionJitter),
       offsetY  |-> Spread(rnd[4], positionJitter)]

\* the body of the points.map callback
VaryPoint(point, draw, centerX, centerY) ==
  LET x == Mul(Sub(point.x, centerX), draw.scale)
      y == Mul(Sub(point.y, centerY), draw.scale)
      cos == CosDeg(draw.rotation)
      sin == SinDeg(draw.rotation)
      rotatedX == Sub(Mul(x, cos), Mul(y, sin))
      rotatedY == Add(Mul(x, sin), Mul(y, cos))
  IN  [x |-> Add(Add(rotatedX, centerX), draw.offsetX),
       y |-> Add(Add(rotatedY, centerY), draw.offsetY),
       pressure |-> OrElse(point.pressure, Half),
       timestamp |-> OrElse(point.timestamp, Zero)]

\* variant: every stroke is turned about the centre of its own box
applyVariationPerStroke(strks, cfg, rnd) ==
  LET draw == VariationDraw(cfg, rnd)
  IN  [s \in 1..Len(strks) |->
        LET bnds == calculateBounds(<<strks[s]>>)
            centerX == Div(Add(bnds.minX, bnds.maxX), Int2Num(2))
            centerY == Div(Add(bnds.minY, bnds.maxY), Int2Num(2))
        IN  [points |-> [j \in 1..Len(strks[s].points) |->
                          VaryPoint(strks[s].points[j], draw, centerX, centerY)]]]

\* variant: the centre is not added back after the rotation
applyVariationOffCentre(strks, cfg, rnd) ==
  LET draw == VariationDraw(cfg, rnd)
      bnds == calculateBounds(strks)
      centerX == Div(Add(bnds.minX, bnds.maxX), Int2Num(2))
      centerY == Div(Add(bnds.minY, bnds.maxY), Int2Num(2))
  IN  [s \in 1..Len(strks) |->
        [points |-> [j \in 1..Len(strks[s].points) |->
           LET v == VaryPoint(strks[s].points[j], draw, centerX, centerY)
           IN  [v EXCEPT !.x = Sub(v.x, centerX), !.y = Sub(v.y, centerY)]]]]

applyVariation(strks, cfg, rnd) ==
  LET draw == VariationDraw(cfg, rnd)
      bnds == calculateBounds(strks)
      centerX == Div(Add(bnds.minX, bnds.maxX), Int2Num(2))
      centerY == Div(Add(bnds.minY, bnds.maxY), Int2Num(2))
  IN  [s \in 1..Len(strks) |->
        [points |-> [j \in 1..Len(strks[s].points) |->
                      VaryPoint(strks[s].points[j], draw, centerX, centerY)]]]

\* the value null of extractConnectors, in the shape of a connector
NullConnector ==
  [entry |-> [x |-> Undefined, y |-> Undefined],
   exit  |-> [x |-> Undefined, y |-> Undefined],
   width |-> Undefined]

\* variant: exit is the last point of the first stroke
extractConnectorsFirstStrokeExit(strks) ==
  IF Len(strks) = 0 THEN NullConnector
  ELSE LET firstStroke == strks[1]
           lastStroke  == strks[Len(strks)]
       IN  IF Len(firstStroke.points) = 0 \/ Len(lastStroke.points) = 0
           THEN NullConnector
           ELSE LET entry == firstStroke.points[1]
                    exit  == firstStroke.points[Len(firstStroke.points)]
                    bnds  == calculateBounds(strks)
                IN  [entry |-> [x |-> entry.x, y |-> entry.y],
                     exit  |-> [x |-> exit.x, y |-> exit.y],
                     width |-> OrElse(bnds.width, Zero)]

extractConnectors(strks) ==
  IF Len(strks) = 0 THEN NullConnector
  ELSE LET firstStroke == strks[1]
           lastStroke  == strks[Len(strks)]
       IN  IF Len(firstStroke.points) = 0 \/ Len(lastStroke.points) = 0
           THEN NullConnector
           ELSE LET entry == firstStroke.points[1]
                    exit  == lastStroke.points[Len(lastStroke.points)]
                    bnds  == calculateBounds(strks)
                IN  [entry |-> [x |-> entry.x, y |-> entry.y],
                     exit  |-> [x |-> exit.x, y |-> exit.y],
                     width |-> OrElse(bnds.width, Zero)]

\* ------------------------------------------------------------------------
\* StrokeProcessor.mapPressureToWidth and the glyph renderer
\* ------------------------------------------------------------------------

\* variant: the pressure is used as given, without clamping to [0, 1]
mapPressureToWidthUnclamped(p, minW, maxW) ==
  Add(minW, Mul(Sub(maxW, minW), p))

mapPressureToWidth(p, minW, maxW) ==
  LET normalizedPressure == MathMax(Zero, MathMin(One, p))
  IN  Add(minW, Mul(Sub(maxW, minW), normalizedPressure))

MIN_STROKE_WIDTH == Rat(3, 2)

MAX_STROKE_WIDTH == Int2Num(3)

\* Number.prototype.toFixed(2): the nearest multiple of 1/100, a tie going
\* away from zero; a non-finite number prints as itself
ToFixed2(a0) ==
  LET a == ToNum(a0)
  IN  IF ~IsFinite(a) THEN a
      ELSE Rat(Sign(a) * ((Abs(a[1]) * 200 + a[2]) \div (2 * a[2])), 100)

\* a stored Character of the font document
Character(strks, bnds, baseline, mtr, connectors) ==
  [strokes |-> strks, bounds |-> bnds, baseline |-> baseline,
   metrics |-> mtr, connectors |-> connectors]

getBaselineNorm(charData) ==
  IF Truthy(charData.metrics.emHeight)
  THEN Div(Sub(charData.metrics.baseline, charData.metrics.ascender),
           charData.metrics.emHeight)
  ELSE Rat(7, 10)

\* the Q commands of generatePathData for the 0-based points i .. length - 2
RECURSIVE CurveCommands(_, _, _)
CurveCommands(pts, scale, i) ==
  IF i >= Len(pts) - 1 THEN <<>>
  ELSE LET curr == pts[i + 1]
           next == pts[i + 2]
       IN  << <<"Q", ToFixed2(Mul(curr.x, scale)), ToFixed2(Mul(curr.y, scale)),
                     ToFixed2(Mul(Div(Add(curr.x, next.x), Int2Num(2)), scale)),
                     ToFixed2(Mul(Div(Add(curr.y, next.y), Int2Num(2)), scale))>> >>
           \o CurveCommands(pts, scale, i + 1)

\* the path data string, as its sequence of commands
generatePathData(pts, scale) ==
  IF Len(pts) = 0 THEN <<>>
  ELSE LET move == << <<"M", ToFixed2(Mul(pts[1].x, scale)),
                            ToFixed2(Mul(pts[1].y, scale))>> >>
           last == pts[Len(pts)]
       IN  IF Len(pts) > 2
           THEN move \o CurveCommands(pts, scale, 1)
                     \o << <<"L", ToFixed2(Mul(last.x, scale)),
                                  ToFixed2(Mul(last.y, scale))>> >>
           ELSE move \o [i \in 1..(Len(pts) - 1) |->
                           <<"L", ToFixed2(Mul(pts[i + 1].x, scale)),
                                  ToFixed2(Mul(pts[i + 1].y, scale))>>]

\* stroke.points.reduce((sum, p) => sum + (p.pressure || 0.5), 0)
RECURSIVE PressureSum(_)
PressureSum(pts) ==
  IF Len(pts) = 0 THEN Zero
  ELSE Add(PressureSum(SubSeq(pts, 1, Len(pts) - 1)),
           OrElse(pts[Len(pts)].pressure, Half))

\* the <path> elements renderCharacter writes for the strokes s ..
RECURSIVE CharacterPaths(_, _, _)
CharacterPaths(strks, size, s) ==
  IF s > Len(strks) THEN <<>>
  ELSE LET stroke == strks[s]
       IN  IF Len(stroke.points) < 2 THEN CharacterPaths(strks, size, s + 1)
           ELSE LET avgPressure == Div(PressureSum(stroke.points),
                                       Int2Num(Len(stroke.points)))
                    strokeWidth == mapPressureToWidth(avgPressure, MIN_STROKE_WIDTH,
                                                      MAX_STROKE_WIDTH)
                IN  << [d |-> generatePathData(stroke.points, size),
                        strokeWidth |-> ToFixed2(strokeWidth)] >>
                    \o CharacterPaths(strks, size, s + 1)

\* the <g> element of one glyph: its translation and its paths
renderCharacter(strks, x, baselineY, size, charData) ==
  LET baselineNorm == getBaselineNorm(charData)
      yOffset == Sub(baselineY, Mul(baselineNorm, size))
  IN  [translate |-> <<ToFixed2(x), ToFixed2(yOffset)>>,
       paths |-> CharacterPaths(strks, size, 1)]

\* ------------------------------------------------------------------------
\* Values of the variables a specification does not use
\* ------------------------------------------------------------------------

\* the value null of prevConnector, in the shape of a stored connector
NullPrevConnector ==
  [entry |-> [x |-> Undefined, y |-> Undefined],
   exit  |-> [x |-> Undefined, y |-> Undefined],
   width |-> Undefined,
   exitAbsX |-> Undefined, exitAbsY |-> Undefined, strokeWidth |-> Undefined]

RenderConfig(fontSize, letterSpacing, lineHeight, variation, connectCursive) ==
  [fontSize |-> fontSize, letterSpacing |-> letterSpacing, lineHeight |-> lineHeight,
   variation |-> variation, connectCursive |-> connectCursive]

\* let config = { fontSize: 60, letterSpacing: 5, lineHeight: 1.5, variation: 2,
\*                connectCursive: true, ... }
DefaultConfig == RenderConfig(Int2Num(60), Int2Num(5), Rat(3, 2), Int2Num(2), TRUE)

\* let renderedSVG = "" : nothing rendered yet
NoDocument ==
  [width |-> Undefined, height |-> Undefined,
   metadata |-> [generator |-> "", created |-> 0], content |-> <<>>]

\* no render request is in progress
RenderIdle ==
  /\ pc = "idle"
  /\ lines = <<>>
  /\ lineIndex = 0
  /\ yPosition = Zero
  /\ svgContent = <<>>
  /\ idx = 0
  /\ xPosition = Zero
  /\ lineSvg = <<>>
  /\ missingChars = <<>>
  /\ prevConnector = NullPrevConnector
  /\ lineResult = [svg |-> <<>>, width |-> Zero]

RendererIdle ==
  /\ characters = << >>
  /\ config = DefaultConfig
  /\ text = <<>>
  /\ renderedSVG = NoDocument
  /\ alert = ""
  /\ RenderIdle

\* metadata of a document: ISO time strings are modelled by clock readings
Metadata(created, modified, version) ==
  [created |-> created, modified |-> modified, version |-> version]

\* localStorage holds no item under the key
NoStorage == [metadata |-> Metadata(0, 0, ""), characters |-> << >>, present |-> FALSE]

\* no FontData call yet
NoCall == [op |-> "none"]

\* a FontData constructed at time 0 and not used
FontIdle ==
  /\ metadata = Metadata(0, 0, "1.0")
  /\ storage = NoStorage
  /\ now = 0
  /\ fontCall = NoCall

\* let currentStroke = null
NoStroke == [points |-> <<>>, startTime |-> -1]

\* the capture tool is not open, and no handler has called StrokeProcessor
CaptureIdle ==
  /\ currentChar = <<>>
  /\ currentStrokes = <<>>
  /\ currentStroke = NoStroke
  /\ isDrawing = FALSE
  /\ calls = <<>>

WidthIdle ==
  /\ pressure = Undefined
  /\ minWidth = Undefined
  /\ maxWidth = Undefined
  /\ width = Undefined
  /\ prevPressure = Undefined
  /\ prevWidth = Undefined

SimplifierIdle ==
  /\ points = <<>>
  /\ tolerance = Undefined
  /\ simplified = <<>>
  /\ prevTolerance = Undefined
  /\ prevSimplified = <<>>

ProcessorIdle ==
  /\ strokes = <<>>
  /\ bounds = Bounds(Zero, Zero, Zero, Zero)
  /\ metrics = NullMetrics
  /\ variationConfig = VariationConfig(Undefined, Undefined, Undefined)
  /\ random = <<>>
  /\ op = "none"
  /\ result = <<>>

\* ------------------------------------------------------------------------
\* Inputs of the stroke operations
\* ------------------------------------------------------------------------

\* stroke sets of at most MaxStrokes strokes of at most MaxStrokePoints
\* points each, the points taken from pool
StrokesOver(pool) ==
  { Stroke(pts) : pts \in UNION { [1..n -> pool] : n \in 0..MaxStrokePoints } }

StrokeSets(pool) == UNION { [1..m -> StrokesOver(pool)] : m \in 0..MaxStrokes }

\* raw capture points: pressure and timestamp absent, zero, and in range
RawPoints ==
  { Point(Int2Num(0), Int2Num(0), Undefined, Undefined),
    Point(Int2Num(20), Int2Num(30), Zero, Zero),
    Point(Int2Num(40), Int2Num(60), Rat(3, 10), Int2Num(7)) }

\* bounds arguments: scenario B's box, a flat box and an offset box
BoundsArgs ==
  { Bounds(Zero, Zero, Int2Num(40), Int2Num(60)),
    Bounds(Int2Num(10), Int2Num(5), Int2Num(40), Int2Num(5)),
    Bounds(Int2Num(10), Int2Num(5), Int2Num(40), Int2Num(35)) }

\* metrics arguments: absent, scenario B's, the capture tool's (0.18, 0.66
\* and 0.64 of a 350 pixel canvas), a zero em height, and no em height
MetricsArgs ==
  { NullMetrics,
    Metrics(Zero, Int2Num(45), Int2Num(60)),
    Metrics(Int2Num(63), Int2Num(231), Int2Num(224)),
    Metrics(Int2Num(63), Int2Num(231), Zero),
    Metrics(Zero, Int2Num(45), Undefined) }

\* ------------------------------------------------------------------------
\* normalize on arbitrary arguments
\* ------------------------------------------------------------------------

InitNormalize ==
  /\ SimplifierIdle
  /\ WidthIdle
  /\ RendererIdle
  /\ FontIdle
  /\ CaptureIdle
  /\ strokes \in StrokeSets(RawPoints)
  /\ bounds \in BoundsArgs
  /\ metrics \in MetricsArgs
  /\ variationConfig = VariationConfig(Undefined, Undefined, Undefined)
  /\ random = <<>>
  /\ op = "none"
  /\ result = <<>>

Normalize ==
  /\ op = "none"
  /\ op' = "normalize"
  /\ result' = normalize(strokes, bounds, metrics)
  /\ UNCHANGED <<strokes, bounds, metrics, variationConfig, random>>
  /\ UNCHANGED simplifierVars
  /\ UNCHANGED widthVars
  /\ UNCHANGED rendererVars
  /\ UNCHANGED fontVars
  /\ UNCHANGED <<captureVars, calls>>

NextNormalize == Normalize

SpecNormalize == InitNormalize /\ [][NextNormalize]_vars

\* the points of a stroke set as <<stroke index, point index>> pairs
PointPositions(strks) ==
  UNION { { <<s, j>> : j \in 1..Len(strks[s].points) } : s \in 1..Len(strks) }

SameShape(out, in) ==
  /\ Len(out) = Len(in)
  /\ \A s \in 1..Len(in) : Len(out[s].points) = Len(in[s].points)

ScenarioBBounds == Bounds(Zero, Zero, Int2Num(40), Int2Num(60))

ScenarioBMetrics == Metrics(Zero, Int2Num(45), Int2Num(60))

\* C5: normalize maps every point to ((x - originX)/scale, (y - originY)/scale)
\* with originX = bounds.minX, originY = metrics.ascender when metrics is
\* supplied (also when the ascender is 0) and bounds.minY otherwise, and one
\* scale for both axes: metrics.emHeight if present and nonzero, else
\* bounds.height if nonzero, else 1; with scenario B's bounds and metrics the
\* point (20,30) becomes (1/3, 1/2).
C5_NormalizeMapping ==
  op = "normalize" =>
    LET originX == bounds.minX
        originY == IF metrics # NullMetrics THEN metrics.ascender ELSE bounds.minY
        scale   == IF ~IsUndefined(metrics.emHeight) /\ metrics.emHeight # Zero
                   THEN metrics.emHeight
                   ELSE IF bounds.height # Zero THEN bounds.height ELSE One
    IN  /\ SameShape(result, strokes)
        /\ \A sj \in PointPositions(strokes) :
             LET in  == strokes[sj[1]].points[sj[2]]
                 out == result[sj[1]].points[sj[2]]
             IN  /\ out.x = Div(Sub(in.x, originX), scale)
                 /\ out.y = Div(Sub(in.y, originY), scale)
                 /\ (/\ bounds = ScenarioBBounds
                     /\ metrics = ScenarioBMetrics
                     /\ in.x = Int2Num(20)
                     /\ in.y = Int2Num(30))
                      => (out.x = Rat(1, 3) /\ out.y = Rat(1, 2))

\* normalize ran with scenario B's metrics (ascender 0) on a box that starts
\* lower than the ascender, and the point at y = 30 came out at 30/60
C5_Witness ==
  /\ op = "normalize"
  /\ metrics = ScenarioBMetrics
  /\ bounds.minY # Zero
  /\ \E sj \in PointPositions(strokes) :
       /\ strokes[sj[1]].points[sj[2]].y = Int2Num(30)
       /\ result[sj[1]].points[sj[2]].y = Rat(1, 2)

\* C6: normalize passes pressure and timestamp through: an input point whose
\* pressure p is present with 0 <= p <= 1 (p = 0 included) comes out with
\* pressure p and its timestamp, and only a point without pressure gets 0.5.
C6_PressurePassThrough ==
  op = "normalize" =>
    /\ SameShape(result, strokes)
    /\ \A sj \in PointPositions(strokes) :
         LET in  == strokes[sj[1]].points[sj[2]]
             out == result[sj[1]].points[sj[2]]
         IN  IF IsUndefined(in.pressure)
             THEN out.pressure = Half
             ELSE (Le(Zero, in.pressure) /\ Le(in.pressure, One))
                    => (out.pressure = in.pressure /\ out.timestamp = in.timestamp)

\* ------------------------------------------------------------------------
\* applyVariation on arbitrary arguments
\* ------------------------------------------------------------------------

\* points in normalized (em) units
NormPoints ==
  { Point(Zero, Zero, Half, Zero),
    Point(Rat(1, 3), Rat(1, 2), Rat(3, 10), Int2Num(7)),
    Point(Rat(2, 3), One, One, Int2Num(9)) }

\* no variation, a large one, and one that only turns and shifts; the
\* rotation ranges keep the drawn angles at multiples of 90 degrees
VariationConfigs ==
  { VariationConfig(Zero, Zero, Zero),
    VariationConfig(Rat(1, 10), Int2Num(180), Rat(1, 5)),
    VariationConfig(Rat(1, 50), Int2Num(360), Zero) }

\* outcomes of Math.random(), a value of [0, 1)
RandomOutcomes == {Zero, Rat(3, 4)}

InitVariation ==
  /\ SimplifierIdle
  /\ WidthIdle
  /\ RendererIdle
  /\ FontIdle
  /\ CaptureIdle
  /\ strokes \in StrokeSets(NormPoints)
  /\ bounds = Bounds(Zero, Zero, Zero, Zero)
  /\ metrics = NullMetrics
  /\ variationConfig \in VariationConfigs
  /\ random = <<>>
  /\ op = "none"
  /\ result = <<>>

ApplyVariation(rnd) ==
  /\ op = "none"
  /\ op' = "applyVariation"
  /\ random' = rnd
  /\ result' = applyVariation(strokes, variationConfig, rnd)
  /\ UNCHANGED <<strokes, bounds, metrics, variationConfig>>
  /\ UNCHANGED simplifierVars
  /\ UNCHANGED widthVars
  /\ UNCHANGED rendererVars
  /\ UNCHANGED fontVars
  /\ UNCHANGED <<captureVars, calls>>

NextVariation == \E rnd \in [1..4 -> RandomOutcomes] : ApplyVariation(rnd)

SpecVariation == InitVariation /\ [][NextVariation]_vars

\* C8: with positionJitter, rotationRange and scaleRange all 0, applyVariation
\* returns the input coordinates, whatever the random source yields.
C8_IdentityVariation ==
  (op = "applyVariation" /\ variationConfig = VariationConfig(Zero, Zero, Zero)) =>
    /\ SameShape(result, strokes)
    /\ \A sj \in PointPositions(strokes) :
         /\ result[sj[1]].points[sj[2]].x = strokes[sj[1]].points[sj[2]].x
         /\ result[sj[1]].points[sj[2]].y = strokes[sj[1]].points[sj[2]].y

\* the zero config was applied to two strokes away from the origin, with
\* random outcomes that are not the midpoint
C8_Witness ==
  /\ op = "applyVariation"
  /\ variationConfig = VariationConfig(Zero, Zero, Zero)
  /\ random = <<Zero, Rat(3, 4), Zero, Rat(3, 4)>>
  /\ Len(strokes) = 2
  /\ \A s \in 1..2 : Len(strokes[s].points) = 2 /\ strokes[s].points[1].x # Zero
  /\ result[2].points[2].x = strokes[2].points[2].x

\* the x and y values of all points of a stroke set
AllXs(strks) == { strks[sj[1]].points[sj[2]].x : sj \in PointPositions(strks) }

AllYs(strks) == { strks[sj[1]].points[sj[2]].y : sj \in PointPositions(strks) }

Least(S) == CHOOSE a \in S : \A b \in S : Le(a, b)

Greatest(S) == CHOOSE a \in S : \A b \in S : Le(b, a)

Midpoint(S) == Div(Add(Least(S), Greatest(S)), Int2Num(2))

\* p scaled by scale and turned by rotation degrees about (cx, cy), then
\* shifted by (dx, dy)
Transformed(p, rotation, scale, dx, dy, cx, cy) ==
  LET ux == Mul(Sub(p.x, cx), scale)
      uy == Mul(Sub(p.y, cy), scale)
  IN  [x |-> Add(Add(Sub(Mul(ux, CosDeg(rotation)), Mul(uy, SinDeg(rotation))), cx), dx),
       y |-> Add(Add(Add(Mul(ux, SinDeg(rotation)), Mul(uy, CosDeg(rotation))), cy), dy)]

\* C9: one call of applyVariation has one rotation within rotationRange degrees
\* of 0, one scale within scaleRange of 1 and one offset (dx, dy) within
\* positionJitter of 0 on each axis, and every point of every stroke is the
\* input point under that one transform about one centre, the centre of the
\* box of the whole stroke set.
C9_OneTransformPerCall ==
  op = "applyVariation" =>
    LET draw == VariationDraw(variationConfig, random)
        cfg  == variationConfig
    IN  /\ Le(Neg(cfg.rotationRange), draw.rotation)
        /\ Le(draw.rotation, cfg.rotationRange)
        /\ Le(Sub(One, cfg.scaleRange), draw.scale)
        /\ Le(draw.scale, Add(One, cfg.scaleRange))
        /\ Le(Neg(cfg.positionJitter), draw.offsetX)
        /\ Le(draw.offsetX, cfg.positionJitter)
        /\ Le(Neg(cfg.positionJitter), draw.offsetY)
        /\ Le(draw.offsetY, cfg.positionJitter)
        /\ SameShape(result, strokes)
        /\ PointPositions(strokes) # {} =>
             LET cx == Midpoint(AllXs(strokes))
                 cy == Midpoint(AllYs(strokes))
             IN  \A sj \in PointPositions(strokes) :
                   LET t == Transformed(strokes[sj[1]].points[sj[2]], draw.rotation,
                                        draw.scale, draw.offsetX, draw.offsetY, cx, cy)
                       out == result[sj[1]].points[sj[2]]
                   IN  out.x = t.x /\ out.y = t.y

\* a glyph of two different strokes was turned, scaled and shifted
C9_Witness ==
  /\ op = "applyVariation"
  /\ variationConfig = VariationConfig(Rat(1, 10), Int2Num(180), Rat(1, 5))
  /\ random = <<Rat(3, 4), Zero, Rat(3, 4), Zero>>
  /\ Len(strokes) = 2
  /\ Len(strokes[1].points) = 2
  /\ Len(strokes[2].points) = 1
  /\ strokes[1].points[1] # strokes[1].points[2]
  /\ strokes[2].points[1] # strokes[1].points[2]
  /\ result[1].points[1].x # strokes[1].points[1].x

\* ------------------------------------------------------------------------
\* extractConnectors on arbitrary arguments
\* ------------------------------------------------------------------------

InitConnectors ==
  /\ SimplifierIdle
  /\ WidthIdle
  /\ RendererIdle
  /\ FontIdle
  /\ CaptureIdle
  /\ strokes \in StrokeSets(NormPoints)
  /\ bounds = Bounds(Zero, Zero, Zero, Zero)
  /\ metrics = NullMetrics
  /\ variationConfig = VariationConfig(Undefined, Undefined, Undefined)
  /\ random = <<>>
  /\ op = "none"
  /\ result = <<>>

ExtractConnectors ==
  /\ op = "none"
  /\ op' = "extractConnectors"
  /\ result' = extractConnectors(strokes)
  /\ UNCHANGED <<strokes, bounds, metrics, variationConfig, random>>
  /\ UNCHANGED simplifierVars
  /\ UNCHANGED widthVars
  /\ UNCHANGED rendererVars
  /\ UNCHANGED fontVars
  /\ UNCHANGED <<captureVars, calls>>

NextConnectors == ExtractConnectors

SpecConnectors == InitConnectors /\ [][NextConnectors]_vars

\* C10: extractConnectors returns null for an empty stroke set and when the
\* first or the last stroke has no points; otherwise entry is the first point
\* of the first stroke, exit the last point of the last stroke and width the
\* width of the box of all points, so one stroke of one point has entry = exit.
C10_Connectors ==
  op = "extractConnectors" =>
    IF \/ Len(strokes) = 0
       \/ Len(strokes[1].points) = 0
       \/ Len(strokes[Len(strokes)].points) = 0
    THEN result = NullConnector
    ELSE LET first == strokes[1].points[1]
             lastStroke == strokes[Len(strokes)]
             last == lastStroke.points[Len(lastStroke.points)]
         IN  /\ result.entry = [x |-> first.x, y |-> first.y]
             /\ result.exit = [x |-> last.x, y |-> last.y]
             /\ result.width = Sub(Greatest(AllXs(strokes)), Least(AllXs(strokes)))
             /\ (Len(strokes) = 1 /\ Len(strokes[1].points) = 1)
                  => result.entry = result.exit

\* connectors of a glyph of two strokes whose exit is not on the first stroke
C10_Witness ==
  /\ op = "extractConnectors"
  /\ Len(strokes) = 2
  /\ Len(strokes[1].points) = 2
  /\ Len(strokes[2].points) = 2
  /\ result # NullConnector
  /\ result.exit.x # strokes[1].points[2].x
  /\ result.entry # result.exit
  /\ Gt(result.width, Zero)

\* ------------------------------------------------------------------------
\* mapPressureToWidth on arbitrary arguments, and the widths renderCharacter
\* writes for arbitrary strokes
\* ------------------------------------------------------------------------

\* pressures in and out of [0, 1]
Pressures == {Int2Num(-1), Zero, Rat(3, 10), Half, One, Int2Num(2)}

Widths == {One, Rat(3, 2), Int2Num(3)}

\* points whose pressure is out of range, absent and in range
PressurePoints ==
  { Point(Zero, Zero, Int2Num(-1), Zero),
    Point(Rat(1, 3), Rat(1, 2), Int2Num(2), Int2Num(7)),
    Point(Rat(2, 3), One, Undefined, Int2Num(9)),
    Point(One, Zero, Rat(3, 10), Int2Num(11)) }

InitWidth ==
  /\ SimplifierIdle
  /\ RendererIdle
  /\ FontIdle
  /\ CaptureIdle
  /\ bounds = Bounds(Zero, Zero, Zero, Zero)
  /\ metrics = NullMetrics
  /\ variationConfig = VariationConfig(Undefined, Undefined, Undefined)
  /\ random = <<>>
  /\ op = "none"
  /\ result = <<>>
  /\ pressure = Undefined
  /\ width = Undefined
  /\ prevPressure = Undefined
  /\ prevWidth = Undefined
  /\ \/ /\ strokes = <<>>
        /\ minWidth \in Widths
        /\ maxWidth \in {w \in Widths : Le(minWidth, w)}
     \/ /\ strokes \in StrokeSets(PressurePoints)
        /\ minWidth = Undefined
        /\ maxWidth = Undefined

\* one call mapPressureToWidth(p, minWidth, maxWidth); the call before is
\* remembered, and at most two calls are made
MapPressureToWidth(p) ==
  /\ minWidth # Undefined
  /\ prevPressure = Undefined
  /\ pressure' = p
  /\ width' = mapPressureToWidth(p, minWidth, maxWidth)
  /\ prevPressure' = pressure
  /\ prevWidth' = width
  /\ UNCHANGED <<minWidth, maxWidth>>
  /\ UNCHANGED processorVars
  /\ UNCHANGED simplifierVars
  /\ UNCHANGED rendererVars
  /\ UNCHANGED fontVars
  /\ UNCHANGED <<captureVars, calls>>

\* one call of renderCharacter on the strokes, at font size 60
RenderCharacter ==
  /\ minWidth = Undefined
  /\ op = "none"
  /\ op' = "renderCharacter"
  /\ result' = renderCharacter(strokes, Int2Num(50), Int2Num(90), Int2Num(60),
                               Character(strokes, bounds, Zero, metrics, NullConnector))
  /\ UNCHANGED <<strokes, bounds, metrics, variationConfig, random>>
  /\ UNCHANGED simplifierVars
  /\ UNCHANGED widthVars
  /\ UNCHANGED rendererVars
  /\ UNCHANGED fontVars
  /\ UNCHANGED <<captureVars, calls>>

NextWidth ==
  \/ \E p \in Pressures : MapPressureToWidth(p)
  \/ RenderCharacter

SpecWidth == InitWidth /\ [][NextWidth]_vars

\* p limited to [0, 1]
Clamp01(p) == IF Lt(p, Zero) THEN Zero ELSE IF Gt(p, One) THEN One ELSE p

\* C4: for minWidth <= maxWidth and any pressure, in range or not,
\* mapPressureToWidth lies in [minWidth, maxWidth], equals
\* minWidth + (maxWidth - minWidth) * clamp(pressure, 0, 1) and does not
\* decrease when the pressure grows; every stroke width renderCharacter
\* writes lies in [1.5, 3].
C4_PressureToWidth ==
  /\ pressure # Undefined =>
       /\ Le(minWidth, width)
       /\ Le(width, maxWidth)
       /\ width = Add(minWidth, Mul(Sub(maxWidth, minWidth), Clamp01(pressure)))
       /\ (prevPressure # Undefined /\ Le(prevPressure, pressure))
            => Le(prevWidth, width)
       /\ (prevPressure # Undefined /\ Le(pressure, prevPressure))
            => Le(width, prevWidth)
  /\ op = "renderCharacter" =>
       \A k \in 1..Len(result.paths) :
         /\ Le(Rat(3, 2), result.paths[k].strokeWidth)
         /\ Le(result.paths[k].strokeWidth, Int2Num(3))

\* widths were computed for the pressures -1 and 2 and both clamped
C4_Witness ==
  /\ prevPressure = Int2Num(-1)
  /\ pressure = Int2Num(2)
  /\ Lt(minWidth, maxWidth)
  /\ prevWidth = minWidth
  /\ width = maxWidth

\* a glyph with a stroke of two points of pressure 2 was rendered
C4_WitnessRendered ==
  /\ op = "renderCharacter"
  /\ Len(result.paths) = 2
  /\ result.paths[1].strokeWidth = Int2Num(3)
  /\ result.paths[2].strokeWidth = Rat(3, 2)

\* capture coordinates of the simplifier inputs (pixels)
CaptureXs == {0, 10, 20}

CaptureYs == {0, 10}

\* tolerances tried: 0, 0.5, 5 and 50 (the grid's distances lie between)
Tolerances == {Zero, Half, Int2Num(5), Int2Num(50)}

\* point sequences of the given length; the i-th point carries timestamp i
PointSeqs(n) ==
  { [i \in 1..n |-> Point(Int2Num(xy[i][1]), Int2Num(xy[i][2]), Half, Int2Num(i))] :
      xy \in [1..n -> CaptureXs \X CaptureYs] }

InitSimplify ==
  /\ \E n \in 0..MaxPoints : points \in PointSeqs(n)
  /\ tolerance = Undefined
  /\ simplified = <<>>
  /\ prevTolerance = Undefined
  /\ prevSimplified = <<>>
  /\ ProcessorIdle
  /\ WidthIdle
  /\ RendererIdle
  /\ FontIdle
  /\ CaptureIdle

\* one call simplifyStroke(points, t); the call before is remembered, and
\* an input is simplified at most twice
SimplifyStroke(t) ==
  /\ prevTolerance = Undefined
  /\ tolerance' = t
  /\ simplified' = simplifyStroke(points, t)
  /\ prevTolerance' = tolerance
  /\ prevSimplified' = simplified
  /\ UNCHANGED points
  /\ UNCHANGED processorVars
  /\ UNCHANGED widthVars
  /\ UNCHANGED rendererVars
  /\ UNCHANGED fontVars
  /\ UNCHANGED <<captureVars, calls>>

NextSimplify == \E t \in Tolerances : SimplifyStroke(t)

SpecSimplify == InitSimplify /\ [][NextSimplify]_vars

\* ------------------------------------------------------------------------
\* Properties of simplifyStroke
\* ------------------------------------------------------------------------

SimplifyCalled == tolerance # Undefined

\* C1: after simplifyStroke(points, t) with t >= 0 on a sequence of at least
\* one point, the result starts with points[0] and ends with the last input
\* point, and an input of at most 2 points is returned unchanged.
C1_EndpointsPreserved ==
  SimplifyCalled =>
    /\ Len(points) >= 1 =>
          /\ Len(simplified) >= 1
          /\ simplified[1] = points[1]
          /\ simplified[Len(simplified)] = points[Len(points)]
    /\ Len(points) <= 2 => simplified = points

\* a span of more than 2 points was reduced and its endpoints survived
C1_Witness ==
  /\ SimplifyCalled
  /\ Len(points) > 2
  /\ Len(simplified) < Len(points)
  /\ simplified[1] = points[1]
  /\ simplified[Len(simplified)] = points[Len(points)]

\* C2: the result is never longer than the input, and of two calls on the
\* same input the one with the larger tolerance never returns more points.
C2_MonotonicReduction ==
  SimplifyCalled =>
    /\ Len(simplified) <= Len(points)
    /\ (prevTolerance # Undefined /\ Le(prevTolerance, tolerance))
          => Len(simplified) <= Len(prevSimplified)
    /\ (prevTolerance # Undefined /\ Le(tolerance, prevTolerance))
          => Len(prevSimplified) <= Len(simplified)

\* two calls with increasing tolerance, each strictly shorter than before
C2_Witness ==
  /\ prevTolerance # Undefined
  /\ Lt(prevTolerance, tolerance)
  /\ Len(simplified) < Len(prevSimplified)
  /\ Len(prevSimplified) < Len(points)

\* the 0-based input index of an input point (its timestamp is index + 1)
InputIndex(p) == p.timestamp[1] - 1

\* out is points restricted to strictly increasing positions
IsSubsequenceOfInput(out) ==
  /\ \A i \in 1..Len(out) :
        /\ InputIndex(out[i]) \in 0..(Len(points) - 1)
        /\ out[i] = points[InputIndex(out[i]) + 1]
  /\ \A i \in 1..(Len(out) - 1) : InputIndex(out[i]) < InputIndex(out[i + 1])

InteriorIndices == 1..(Len(points) - 2)

\* squared distance of every interior point (0-based index) from the chord
ChordDistSq ==
  [k \in InteriorIndices |->
     perpendicularDistanceSq(points[k + 1], points[1], points[Len(points)])]

ScenarioA ==
  << Point(Int2Num(0), Int2Num(0), Half, Int2Num(1)),
     Point(Int2Num(10), Int2Num(0), Half, Int2Num(2)),
     Point(Int2Num(10), Int2Num(10), Half, Int2Num(3)),
     Point(Int2Num(20), Int2Num(10), Half, Int2Num(4)) >>

\* C3: simplifyStroke is Douglas-Peucker: on more than 2 points, when no
\* interior point is farther than the tolerance from the first-last chord the
\* result is the two endpoints, otherwise a farthest interior point is kept
\* and the result is the simplification of the chain up to it followed by
\* the simplification of the chain from it, the split point appearing once;
\* the result is the input restricted to strictly increasing positions, and
\* scenario A keeps 4 points at tolerance 0.5 and 2 at tolerance 50.
C3_DouglasPeucker ==
  SimplifyCalled =>
    /\ IsSubsequenceOfInput(simplified)
    /\ Len(points) > 2 =>
          LET d == ChordDistSq
          IN  IF \A j \in InteriorIndices : ~ExceedsTolerance(d[j], tolerance)
              THEN simplified = <<points[1], points[Len(points)]>>
              ELSE \E k \in InteriorIndices :
                     /\ \A j \in InteriorIndices : Le(d[j], d[k])
                     /\ points[k + 1] \in {simplified[i] : i \in 1..Len(simplified)}
                     /\ LET left  == simplifyStroke(SubSeq(points, 1, k + 1), tolerance)
                            right == simplifyStroke(SubSeq(points, k + 1, Len(points)),
                                                    tolerance)
                        IN  simplified = SubSeq(left, 1, Len(left) - 1) \o right
    /\ (points = ScenarioA /\ tolerance = Half) => simplified = points
    /\ (points = ScenarioA /\ tolerance = Int2Num(50))
          => simplified = <<points[1], points[4]>>

\* scenario A was simplified at tolerance 0.5 and then at tolerance 50
C3_Witness ==
  /\ points = ScenarioA
  /\ prevTolerance = Half
  /\ prevSimplified = points
  /\ tolerance = Int2Num(50)
  /\ simplified = <<points[1], points[4]>>

\* ------------------------------------------------------------------------
\* The text renderer: renderText, generateTextSVG, renderLine
\* ------------------------------------------------------------------------

\* longest text of the text input, line breaks included
MaxTextLen == 3

NewLine == "\n"

Alphabet == {"t", "h", " "}

Texts == UNION { [1..n -> Alphabet \cup {NewLine}] : n \in 0..MaxTextLen }

\* FontData.hasCharacter: char in this.characters
hasCharacter(key) == key \in DOMAIN characters

\* the value null stored under a key, or returned for a key
NullCharacter == [isNull |-> TRUE]

\* FontData.getCharacter: this.characters[char] || null
getCharacter(key) ==
  IF key \in DOMAIN characters /\ characters[key] # NullCharacter
  THEN characters[key]
  ELSE NullCharacter

\* text.split("\n")
RECURSIVE SplitLines(_)
SplitLines(txt) ==
  IF \A k \in 1..Len(txt) : txt[k] # NewLine THEN <<txt>>
  ELSE LET k == CHOOSE k \in 1..Len(txt) :
                  txt[k] = NewLine /\ \A j \in 1..(k - 1) : txt[j] # NewLine
       IN  <<SubSeq(txt, 1, k - 1)>> \o SplitLines(SubSeq(txt, k + 1, Len(txt)))

\* Math.max(...lines.map((line) => line.length))
RECURSIVE MaxLineLength(_)
MaxLineLength(lns) ==
  IF Len(lns) = 1 THEN Len(lns[1])
  ELSE LET m == MaxLineLength(Tail(lns))
       IN  IF Len(lns[1]) > m THEN Len(lns[1]) ELSE m

\* renderLine(line, 50, yPosition)
StartX == Int2Num(50)

LineHeightPx == Mul(config.fontSize, config.lineHeight)

\* the line renderLine is laying out
CurrentLine == lines[lineIndex + 1]

PairKey == SubSeq(CurrentLine, idx + 1, IF idx + 2 <= Len(CurrentLine) THEN idx + 2
                                        ELSE Len(CurrentLine))

SingleKey == <<CurrentLine[idx + 1]>>

\* variant: no ligature lookup
UsePairNever == FALSE

\* variant: the pair is looked up without the test that it lies in the line
UsePairUnbounded == hasCharacter(PairKey)

UsePair == idx + 1 < Len(CurrentLine) /\ hasCharacter(PairKey)

GlyphKey == IF UsePair THEN PairKey ELSE SingleKey

Step == IF UsePair THEN 2 ELSE 1

\* an element of the output: the <g> of a glyph or the <path> of a join
GlyphElement(g) ==
  [kind |-> "g", translate |-> g.translate, paths |-> g.paths,
   d |-> <<>>, strokeWidth |-> Undefined]

JoinElement(fromX, fromY, toX, toY, strokeWidth) ==
  [kind |-> "path", translate |-> <<>>, paths |-> <<>>,
   d |-> << <<"M", ToFixed2(fromX), ToFixed2(fromY)>>,
            <<"L", ToFixed2(toX), ToFixed2(toY)>> >>,
   strokeWidth |-> ToFixed2(strokeWidth)]

\* variant: the connector of the line before is kept
EnterRenderLineKeepsConnector ==
  /\ idx' = 0
  /\ xPosition' = StartX
  /\ lineSvg' = <<>>
  /\ missingChars' = <<>>
  /\ UNCHANGED prevConnector

\* locals of renderLine at its entry
EnterRenderLine ==
  /\ idx' = 0
  /\ xPosition' = StartX
  /\ lineSvg' = <<>>
  /\ missingChars' = <<>>
  /\ prevConnector' = NullPrevConnector

\* variant: only the text is tested
PreconditionAlertTextOnly ==
  IF Len(text) = 0 THEN "Please enter some text to render." ELSE ""

\* the two tests renderText makes before any layout: the alert of the one that
\* fails, "" when both pass (getStatistics().capturedCount is the number of
\* keys of fontData.characters)
PreconditionAlert ==
  IF Len(text) = 0 THEN "Please enter some text to render."
  ELSE IF Cardinality(DOMAIN characters) = 0 THEN "Please load handwriting data first."
  ELSE ""

\* renderText up to the first loop test of the first renderLine
RenderText ==
  /\ pc = "idle"
  /\ IF PreconditionAlert # ""
     THEN /\ alert' = PreconditionAlert
          /\ UNCHANGED <<pc, lines, lineIndex, yPosition, svgContent, idx, xPosition,
                         lineSvg, missingChars, prevConnector, lineResult>>
     ELSE /\ alert' = ""
          /\ pc' = "line"
          /\ lines' = SplitLines(text)
          /\ lineIndex' = 0
          /\ yPosition' = LineHeightPx
          /\ svgContent' = <<>>
          /\ EnterRenderLine
          /\ UNCHANGED lineResult
  /\ UNCHANGED <<characters, config, text, renderedSVG>>
  /\ UNCHANGED <<simplifierVars, processorVars, widthVars>>
  /\ UNCHANGED fontVars
  /\ UNCHANGED <<captureVars, calls>>

InLoop == pc = "line" /\ idx < Len(CurrentLine)

\* variant: a space ends the word: the connector is dropped
RenderSpaceDropsConnector ==
  /\ InLoop
  /\ GlyphKey = <<" ">>
  /\ xPosition' = Add(xPosition, Mul(config.fontSize, Rat(3, 10)))
  /\ idx' = idx + Step
  /\ prevConnector' = NullPrevConnector
  /\ UNCHANGED <<lineSvg, missingChars>>
  /\ UNCHANGED <<characters, config, text, renderedSVG, alert, pc, lines, lineIndex,
                 yPosition, svgContent, lineResult>>
  /\ UNCHANGED <<simplifierVars, processorVars, widthVars>>
  /\ UNCHANGED fontVars
  /\ UNCHANGED <<captureVars, calls>>

\* one iteration of renderLine on a space
RenderSpace ==
  /\ InLoop
  /\ GlyphKey = <<" ">>
  /\ xPosition' = Add(xPosition, Mul(config.fontSize, Rat(3, 10)))
  /\ idx' = idx + Step
  /\ UNCHANGED <<lineSvg, missingChars, prevConnector>>
  /\ UNCHANGED <<characters, config, text, renderedSVG, alert, pc, lines, lineIndex,
                 yPosition, svgContent, lineResult>>
  /\ UNCHANGED <<simplifierVars, processorVars, widthVars>>
  /\ UNCHANGED fontVars
  /\ UNCHANGED <<captureVars, calls>>

\* variant: a key the document does not have ends the layout of the line
RenderMissingStops ==
  /\ InLoop
  /\ GlyphKey # <<" ">>
  /\ getCharacter(GlyphKey) = NullCharacter
  /\ missingChars' = Append(missingChars, GlyphKey)
  /\ xPosition' = Add(xPosition, Mul(config.fontSize, Rat(1, 2)))
  /\ idx' = Len(CurrentLine)
  /\ UNCHANGED <<lineSvg, prevConnector>>
  /\ UNCHANGED <<characters, config, text, renderedSVG, alert, pc, lines, lineIndex,
                 yPosition, svgContent, lineResult>>
  /\ UNCHANGED <<simplifierVars, processorVars, widthVars>>
  /\ UNCHANGED fontVars
  /\ UNCHANGED <<captureVars, calls>>

\* one iteration of renderLine on a key the document does not have
RenderMissing ==
  /\ InLoop
  /\ GlyphKey # <<" ">>
  /\ getCharacter(GlyphKey) = NullCharacter
  /\ missingChars' = Append(missingChars, GlyphKey)
  /\ xPosition' = Add(xPosition, Mul(config.fontSize, Rat(1, 2)))
  /\ idx' = idx + Step
  /\ UNCHANGED <<lineSvg, prevConnector>>
  /\ UNCHANGED <<characters, config, text, renderedSVG, alert, pc, lines, lineIndex,
                 yPosition, svgContent, lineResult>>
  /\ UNCHANGED <<simplifierVars, processorVars, widthVars>>
  /\ UNCHANGED fontVars
  /\ UNCHANGED <<captureVars, calls>>

\* the stored record has no strokes: JSON.stringify(undefined) is undefined and
\* JSON.parse(undefined) throws a SyntaxError
Throws(charData) == "strokes" \notin DOMAIN charData

\* JSON.stringify writes NaN and the infinities as null and leaves out
\* undefined properties; JSON.parse reads the numbers back
JsonNumber(a) == IF IsFinite(a) \/ IsNullish(a) THEN a ELSE Null

\* JSON.parse(JSON.stringify(strokes)): a copy that shares nothing with the
\* stored strokes
DeepCopy(strks) ==
  [s \in 1..Len(strks) |->
     [points |-> [p \in 1..Len(strks[s].points) |->
                    Point(JsonNumber(strks[s].points[p].x),
                          JsonNumber(strks[s].points[p].y),
                          JsonNumber(strks[s].points[p].pressure),
                          JsonNumber(strks[s].points[p].timestamp))]]]

\* variant: the join is drawn whatever the connectCursive checkbox says
JoinsIgnoringCheckbox(connector) ==
  /\ prevConnector # NullPrevConnector
  /\ connector # NullConnector

\* config.connectCursive && prevConnector && connector?.entry
Joins(connector) ==
  /\ config.connectCursive
  /\ prevConnector # NullPrevConnector
  /\ connector # NullConnector

\* what one iteration of renderLine on the stored glyph GlyphKey lays out: the
\* output, the connector and the cursor it leaves, and the StrokeProcessor
\* calls it makes, in order (renderCharacter's own calls left out); rnd are the
\* Math.random() outcomes of its applyVariation
GlyphLayout(rnd) ==
  LET charData == getCharacter(GlyphKey)
      normalizedStrokes == normalize(DeepCopy(charData.strokes), charData.bounds,
                                     charData.metrics)
      varCfg == VariationConfig(Mul(config.variation, Rat(1, 100)),
                                Mul(config.variation, Rat(3, 2)),
                                Mul(config.variation, Rat(2, 100)))
      variedStrokes == applyVariation(normalizedStrokes, varCfg, rnd)
      baselineNorm == getBaselineNorm(charData)
      yOffset == Sub(yPosition, Mul(baselineNorm, config.fontSize))
      connector == extractConnectors(variedStrokes)
      join == IF Joins(connector)
              THEN << JoinElement(prevConnector.exitAbsX, prevConnector.exitAbsY,
                         Add(xPosition, Mul(connector.entry.x, config.fontSize)),
                         Add(yOffset, Mul(connector.entry.y, config.fontSize)),
                         prevConnector.strokeWidth) >>
              ELSE <<>>
      charSVG == renderCharacter(variedStrokes, xPosition, yPosition,
                                 config.fontSize, charData)
      normalizedBounds == calculateBounds(variedStrokes)
      normalizedWidth == OrElse(normalizedBounds.width, Rat(6, 10))
      charWidth == Mul(normalizedWidth, config.fontSize)
      firstStroke == variedStrokes[1]
      avgPressure == Div(PressureSum(firstStroke.points),
                         Int2Num(IF Len(firstStroke.points) = 0 THEN 1
                                 ELSE Len(firstStroke.points)))
  IN  [lineSvg |-> lineSvg \o join \o <<GlyphElement(charSVG)>>,
       prevConnector |->
         IF connector # NullConnector
         THEN [entry |-> connector.entry, exit |-> connector.exit,
               width |-> connector.width,
               exitAbsX |-> Add(xPosition, Mul(connector.exit.x, config.fontSize)),
               exitAbsY |-> Add(yOffset, Mul(connector.exit.y, config.fontSize)),
               strokeWidth |-> mapPressureToWidth(avgPressure, MIN_STROKE_WIDTH,
                                                  MAX_STROKE_WIDTH)]
         ELSE NullPrevConnector,
       xPosition |-> Add(xPosition, Add(charWidth, config.letterSpacing)),
       calls |-> <<"normalize", "applyVariation", "extractConnectors",
                   "calculateBounds">>
                 \o (IF connector # NullConnector THEN <<"mapPressureToWidth">>
                     ELSE <<>>)]

\* variant: normalize works on the stored strokes, not on a copy, and writes
\* the normalized points into them
GlyphIterationInPlace(rnd) ==
  LET charData == characters[GlyphKey]
  IN  [layout |-> GlyphLayout(rnd),
       characters |->
         [characters EXCEPT ![GlyphKey].strokes =
            normalize(charData.strokes, charData.bounds, charData.metrics)]]

\* one iteration of renderLine on the stored glyph GlyphKey: what it lays out
\* and the font document it leaves (the strokes are copied before they are
\* normalized and varied, and nothing is assigned to the stored Character)
GlyphIteration(rnd) ==
  [layout |-> GlyphLayout(rnd), characters |-> characters]

\* one iteration of renderLine on a stored glyph
RenderGlyph(rnd) ==
  /\ InLoop
  /\ GlyphKey # <<" ">>
  /\ getCharacter(GlyphKey) # NullCharacter
  /\ ~Throws(getCharacter(GlyphKey))
  /\ \E after \in {GlyphIteration(rnd)} :
       /\ lineSvg' = after.layout.lineSvg
       /\ prevConnector' = after.layout.prevConnector
       /\ xPosition' = after.layout.xPosition
       /\ calls' = after.layout.calls
       /\ characters' = after.characters
  /\ idx' = idx + Step
  /\ UNCHANGED missingChars
  /\ UNCHANGED <<config, text, renderedSVG, alert, pc, lines, lineIndex,
                 yPosition, svgContent, lineResult>>
  /\ UNCHANGED <<simplifierVars, processorVars, widthVars>>
  /\ UNCHANGED fontVars
  /\ UNCHANGED captureVars

\* an iteration of renderLine throws: the exception leaves renderLine and
\* generateTextSVG, and the catch of renderText raises an alert
RenderThrows ==
  /\ InLoop
  /\ GlyphKey # <<" ">>
  /\ getCharacter(GlyphKey) # NullCharacter
  /\ Throws(getCharacter(GlyphKey))
  /\ alert' = "Error rendering text: "
  /\ pc' = "idle"
  /\ lines' = <<>>
  /\ lineIndex' = 0
  /\ yPosition' = Zero
  /\ svgContent' = <<>>
  /\ idx' = 0
  /\ xPosition' = Zero
  /\ lineSvg' = <<>>
  /\ missingChars' = <<>>
  /\ prevConnector' = NullPrevConnector
  /\ UNCHANGED <<characters, config, text, renderedSVG, lineResult>>
  /\ UNCHANGED <<simplifierVars, processorVars, widthVars>>
  /\ UNCHANGED fontVars
  /\ UNCHANGED <<captureVars, calls>>

\* the document generateTextSVG returns for the content
TextDocument(content) ==
  [width  |-> Add(Mul(Int2Num(MaxLineLength(lines)),
                      Add(Mul(config.fontSize, Rat(6, 10)), config.letterSpacing)),
                  Int2Num(100)),
   height |-> Add(Mul(Int2Num(Len(lines)), LineHeightPx), Int2Num(100)),
   metadata |-> [generator |-> "Handwriting SVG Generator", created |-> now],
   content |-> content]

\* variant: the document of the lines laid out so far is stored and displayed
\* after every line
RenderLineReturnStreamed ==
  /\ pc = "line"
  /\ idx >= Len(CurrentLine)
  /\ lineResult' = [svg |-> lineSvg, width |-> Sub(xPosition, StartX)]
  /\ renderedSVG' = TextDocument(svgContent \o lineSvg)
  /\ IF lineIndex + 1 < Len(lines)
     THEN /\ svgContent' = svgContent \o lineSvg
          /\ yPosition' = Add(yPosition, LineHeightPx)
          /\ lineIndex' = lineIndex + 1
          /\ EnterRenderLine
          /\ UNCHANGED <<pc, lines>>
     ELSE /\ pc' = "idle"
          /\ lines' = <<>>
          /\ lineIndex' = 0
          /\ yPosition' = Zero
          /\ svgContent' = <<>>
          /\ idx' = 0
          /\ xPosition' = Zero
          /\ lineSvg' = <<>>
          /\ missingChars' = <<>>
          /\ prevConnector' = NullPrevConnector
  /\ UNCHANGED <<characters, config, text, alert>>
  /\ UNCHANGED <<simplifierVars, processorVars, widthVars>>
  /\ UNCHANGED fontVars
  /\ UNCHANGED <<captureVars, calls>>

\* renderLine returns; generateTextSVG goes on to the next line, or returns
\* the document, which renderText stores and displays
RenderLineReturn ==
  /\ pc = "line"
  /\ idx >= Len(CurrentLine)
  /\ lineResult' = [svg |-> lineSvg, width |-> Sub(xPosition, StartX)]
  /\ IF lineIndex + 1 < Len(lines)
     THEN /\ svgContent' = svgContent \o lineSvg
          /\ yPosition' = Add(yPosition, LineHeightPx)
          /\ lineIndex' = lineIndex + 1
          /\ EnterRenderLine
          /\ UNCHANGED <<pc, lines, renderedSVG>>
     ELSE /\ renderedSVG' = TextDocument(svgContent \o lineSvg)
          /\ pc' = "idle"
          /\ lines' = <<>>
          /\ lineIndex' = 0
          /\ yPosition' = Zero
          /\ svgContent' = <<>>
          /\ idx' = 0
          /\ xPosition' = Zero
          /\ lineSvg' = <<>>
          /\ missingChars' = <<>>
          /\ prevConnector' = NullPrevConnector
  /\ UNCHANGED <<characters, config, text, alert>>
  /\ UNCHANGED <<simplifierVars, processorVars, widthVars>>
  /\ UNCHANGED fontVars
  /\ UNCHANGED <<captureVars, calls>>

\* --- the glyphs and documents of the model ---

\* "t": a bar and a stem of three points, with scenario B's box and metrics
GlyphT ==
  Character(<< Stroke(<< Point(Zero, Int2Num(10), Rat(3, 10), Zero),
                         Point(Int2Num(40), Int2Num(10), Rat(8, 10), Int2Num(7)) >>),
               Stroke(<< Point(Int2Num(20), Zero, Half, Zero),
                         Point(Int2Num(20), Int2Num(30), Half, Int2Num(5)),
                         Point(Int2Num(20), Int2Num(60), Half, Int2Num(9)) >>) >>,
            ScenarioBBounds, Int2Num(45), ScenarioBMetrics, NullConnector)

\* "h": a stroke and a dot, stored without metrics
GlyphH ==
  Character(<< Stroke(<< Point(Int2Num(10), Int2Num(5), Undefined, Undefined),
                         Point(Int2Num(40), Int2Num(35), Zero, Int2Num(4)) >>),
               Stroke(<< Point(Int2Num(25), Int2Num(20), One, Zero) >>) >>,
            Bounds(Int2Num(10), Int2Num(5), Int2Num(40), Int2Num(35)),
            Int2Num(35), NullMetrics, NullConnector)

\* the ligature "th": one stroke across the box
GlyphTH ==
  Character(<< Stroke(<< Point(Zero, Zero, Half, Zero),
                         Point(Int2Num(40), Int2Num(60), Half, Int2Num(6)) >>) >>,
            ScenarioBBounds, Int2Num(45), ScenarioBMetrics, NullConnector)

\* degenerate glyphs: no strokes; one stroke without points; a box of height
\* 0 with an em height of 0
GlyphNoStrokes ==
  Character(<<>>, Bounds(Zero, Zero, Zero, Zero), Zero, NullMetrics, NullConnector)

GlyphNoPoints ==
  Character(<< Stroke(<<>>) >>, Bounds(Zero, Zero, Zero, Zero), Zero, NullMetrics,
            NullConnector)

GlyphFlat ==
  Character(<< Stroke(<< Point(Int2Num(10), Int2Num(5), Half, Zero),
                         Point(Int2Num(10), Int2Num(5), Half, Int2Num(3)) >>) >>,
            Bounds(Int2Num(10), Int2Num(5), Int2Num(10), Int2Num(5)),
            Int2Num(5), Metrics(Int2Num(63), Int2Num(231), Zero), NullConnector)

\* a record without strokes, as an imported file can hold
GlyphBroken ==
  [bounds |-> Bounds(Zero, Zero, Zero, Zero), baseline |-> Zero,
   metrics |-> NullMetrics, connectors |-> NullConnector]

KeyT == <<"t">>

KeyH == <<"h">>

KeyTH == <<"t", "h">>

KeySpace == <<" ">>

\* documents: empty; "t" alone; "t", "h", the ligature and a glyph stored
\* under the space; "t" with each degenerate or broken glyph as "h"; and "t"
\* with null stored under the ligature key
Documents ==
  { << >>,
    (KeyT :> GlyphT),
    (KeyT :> GlyphT) @@ (KeyH :> GlyphH) @@ (KeyTH :> GlyphTH) @@ (KeySpace :> GlyphTH),
    (KeyT :> GlyphT) @@ (KeyH :> GlyphNoStrokes),
    (KeyT :> GlyphT) @@ (KeyH :> GlyphNoPoints),
    (KeyT :> GlyphT) @@ (KeyH :> GlyphFlat),
    (KeyT :> GlyphT) @@ (KeyH :> GlyphBroken),
    (KeyT :> GlyphT) @@ (KeyTH :> NullCharacter) }

Configs ==
  { RenderConfig(Int2Num(60), Int2Num(5), Rat(3, 2), Zero, TRUE),
    RenderConfig(Int2Num(60), Int2Num(5), Rat(3, 2), Zero, FALSE),
    DefaultConfig }

\* Math.random() outcomes of one applyVariation of the renderer; the rotation
\* draw is the midpoint, which keeps the angle at 0 degrees
RenderDraws ==
  { <<Half, Zero, Rat(3, 4), Zero>>,
    <<Half, Rat(3, 4), Zero, Rat(3, 4)>> }

Init ==
  /\ SimplifierIdle
  /\ ProcessorIdle
  /\ WidthIdle
  /\ characters \in Documents
  /\ config \in Configs
  /\ text \in Texts
  /\ renderedSVG = NoDocument
  /\ alert = ""
  /\ RenderIdle
  /\ FontIdle
  /\ CaptureIdle

Next ==
  \/ RenderText
  \/ RenderSpace
  \/ RenderMissing
  \/ \E rnd \in RenderDraws : RenderGlyph(rnd)
  \/ RenderThrows
  \/ RenderLineReturn

Spec == Init /\ [][Next]_vars

\* the numbers renderLine carries from one glyph to the next and returns
CursorNumbers ==
  {xPosition, lineResult.width}
    \cup (IF prevConnector = NullPrevConnector THEN {}
          ELSE {prevConnector.width, prevConnector.exitAbsX, prevConnector.exitAbsY,
                prevConnector.strokeWidth})

\* C7: no core operation yields NaN or a non-finite coordinate, width or
\* cursor position on degenerate geometry (an empty stroke set, a stroke with
\* no points, an em height and a box height of 0): whatever glyphs the
\* document holds, the cursor of renderLine, the width it returns and the
\* connector it keeps for the next join are finite numbers.
C7_NoNonFinite == \A n \in CursorNumbers : IsFinite(n)

\* number of glyph groups among the elements of an output
RECURSIVE GlyphCount(_)
GlyphCount(svg) ==
  IF Len(svg) = 0 THEN 0
  ELSE (IF svg[1].kind = "g" THEN 1 ELSE 0) + GlyphCount(Tail(svg))

\* the two characters at idx and idx + 1 lie in the line and form a stored key
PairStored ==
  /\ idx + 2 <= Len(CurrentLine)
  /\ <<CurrentLine[idx + 1], CurrentLine[idx + 2]>> \in DOMAIN characters

\* renderLine is about to return the line "th" from a document that stores
\* a glyph under the key "th"
ScenarioC ==
  /\ pc = "line"
  /\ CurrentLine = <<"t", "h">>
  /\ idx >= Len(CurrentLine)
  /\ getCharacter(<<"t", "h">>) # NullCharacter

\* C11: at every position of a line renderLine consumes two characters when
\* the pair lies in the line and is a stored key, and exactly one otherwise;
\* one iteration is one lookup: it looks up one key of that length, adds at
\* most one glyph and reports at most one missing key (an iteration that
\* throws ends the layout). The line "th" with a glyph stored under "th" ends with one glyph
\* and a cursor that has advanced once (with no variation: the ligature's
\* width 40 plus the letter spacing from the start 50).
C11_LongestMatch ==
  [][ /\ InLoop =>
           /\ Len(GlyphKey) = (IF PairStored THEN 2 ELSE 1)
           /\ pc' = "line" => idx' = idx + (IF PairStored THEN 2 ELSE 1)
           /\ GlyphCount(lineSvg') <= GlyphCount(lineSvg) + 1
           /\ Len(missingChars') <= Len(missingChars) + 1
      /\ ScenarioC' =>
           /\ idx' = 2
           /\ GlyphCount(lineSvg') = 1
           /\ Len(missingChars') = 0
           /\ config.variation = Zero =>
                xPosition' = Add(StartX, Add(Int2Num(40), config.letterSpacing))
    ]_vars

C11_Witness ==
  /\ ScenarioC
  /\ GlyphCount(lineSvg) = 1
  /\ config.variation = Zero
  /\ xPosition = Int2Num(95)

\* the keys renderLine found missing, as a set
MissingKeys == {missingChars[k] : k \in DOMAIN missingChars}

\* C12: the result renderLine returns for a line holds, besides the geometry
\* (svg) and the total advanced width, the set of the glyph keys of the line
\* that the font document does not have.
C12_MissingReported ==
  [][ (pc = "line" /\ idx >= Len(CurrentLine) /\ missingChars # <<>>) =>
        \E f \in DOMAIN lineResult' \ {"svg", "width"} :
           lineResult'[f] = MissingKeys
    ]_vars

\* C13: rendering never mutates the font document: every step of renderText /
\* generateTextSVG / renderLine, for every text and config, leaves the
\* characters mapping with every stored Character (strokes, points, bounds,
\* metrics, connectors) and the document metadata as they were.
C13_DocumentNotMutated ==
  [][ (pc = "line" \/ pc' = "line") =>
        /\ characters' = characters
        /\ metadata' = metadata
    ]_vars

\* a line with a varied glyph laid out from a stored Character with metrics
C13_Witness ==
  /\ pc = "line"
  /\ GlyphCount(lineSvg) >= 1
  /\ config.variation # Zero
  /\ <<"t">> \in DOMAIN characters
  /\ CurrentLine = <<"t">>
  /\ idx = 1

\* ------------------------------------------------------------------------
\* FontData: setCharacter, removeCharacter, clear, importJSON and the file
\* handlers that call importJSON
\* ------------------------------------------------------------------------

\* latest clock reading of the model
MaxTime == 4

\* the arguments of a setCharacter call
CharacterArgs(strks, bnds, baseline, mtr, connectors) ==
  [strokes |-> strks, bounds |-> bnds, baseline |-> baseline,
   metrics |-> mtr, connectors |-> connectors]

\* the record setCharacter stores at time t: metrics || null and
\* connectors || null keep the null records, baseline || 0
StoredCharacter(a, t) ==
  [strokes |-> a.strokes, bounds |-> a.bounds, baseline |-> OrElse(a.baseline, Zero),
   metrics |-> a.metrics, connectors |-> a.connectors, timestamp |-> t]

\* the mapping chars with the record rec at key
Assign(chars, key, rec) ==
  [k \in DOMAIN chars \cup {key} |-> IF k = key THEN rec ELSE chars[k]]

\* variant: a write to an existing key keeps the stored metrics and connectors
\* when the call gives none
setCharacterMerge(chars, meta, key, a, t) ==
  LET merged == IF key \in DOMAIN chars /\ a.metrics = NullMetrics
                THEN [a EXCEPT !.metrics = chars[key].metrics,
                               !.connectors = chars[key].connectors]
                ELSE a
  IN  [characters |-> Assign(chars, key, StoredCharacter(merged, t)),
       metadata |-> [meta EXCEPT !.modified = t]]

\* setCharacter(char, strokes, bounds, baseline, metrics, connectors) at time t
setCharacter(chars, meta, key, a, t) ==
  [characters |-> Assign(chars, key, StoredCharacter(a, t)),
   metadata |-> [meta EXCEPT !.modified = t]]

\* removeCharacter(char) at time t
removeCharacter(chars, meta, key, t) ==
  IF key \in DOMAIN chars
  THEN [characters |-> [k \in DOMAIN chars \ {key} |-> chars[k]],
        metadata |-> [meta EXCEPT !.modified = t]]
  ELSE [characters |-> chars, metadata |-> meta]

\* clear() at time t
clear(chars, meta, t) ==
  [characters |-> << >>, metadata |-> [meta EXCEPT !.modified = t]]

\* a JSON text by what JSON.parse makes of it: parses is FALSE when it throws;
\* value is the kind of the parsed value; for an object, charactersKind and
\* metadataKind are the kinds of its two properties
JsonFile(parses, value, charactersKind, chars, metadataKind, meta) ==
  [parses |-> parses, value |-> value, charactersKind |-> charactersKind,
   characters |-> chars, metadataKind |-> metadataKind, metadata |-> meta]

\* data.characters is an object that passes importJSON's validation
ValidStructure(file) ==
  /\ file.parses
  /\ file.value = "object"
  /\ file.charactersKind = "object"

\* variant: the characters are assigned before the structure is validated
importJSONPartial(chars, meta, file, t) ==
  IF ~file.parses \/ file.value # "object"
  THEN [ok |-> FALSE, characters |-> chars, metadata |-> meta]
  ELSE IF file.charactersKind # "object"
  THEN [ok |-> FALSE, characters |-> << >>, metadata |-> meta]
  ELSE [ok |-> TRUE, characters |-> file.characters,
        metadata |-> IF file.metadataKind = "object" THEN file.metadata
                     ELSE Metadata(t, t, "1.0")]

\* variant: the imported characters are merged into the loaded ones
importJSONMerge(chars, meta, file, t) ==
  IF ~ValidStructure(file)
  THEN [ok |-> FALSE, characters |-> chars, metadata |-> meta]
  ELSE [ok |-> TRUE,
        characters |-> [k \in DOMAIN chars \cup DOMAIN file.characters |->
                          IF k \in DOMAIN file.characters THEN file.characters[k]
                          ELSE chars[k]],
        metadata |-> IF file.metadataKind = "object" THEN file.metadata
                     ELSE Metadata(t, t, "1.0")]

\* importJSON(jsonString) at time t: JSON.parse, the test of data.characters
\* (reading it from null throws; both throws are caught), then the two
\* assignments
importJSON(chars, meta, file, t) ==
  IF ~ValidStructure(file)
  THEN [ok |-> FALSE, characters |-> chars, metadata |-> meta]
  ELSE [ok |-> TRUE, characters |-> file.characters,
        metadata |-> IF file.metadataKind = "object" THEN file.metadata
                     ELSE Metadata(t, t, "1.0")]

\* exportJSON as localStorage keeps it
exportJSON(chars, meta) == [metadata |-> meta, characters |-> chars, present |-> TRUE]

\* --- the calls, as steps of a FontData and its localStorage item ---

\* the time of the call is read; the next call reads a later time
Tick == now < MaxTime /\ now' = now + 1

SetCharacter(key, a) ==
  /\ Tick
  /\ \E after \in {setCharacter(characters, metadata, key, a, now)} :
       /\ characters' = after.characters
       /\ metadata' = after.metadata
  /\ fontCall' = [op |-> "setCharacter", key |-> key, args |-> a, time |-> now]
  /\ UNCHANGED <<storage, config, text, renderedSVG, alert, pc, lines, lineIndex,
                 yPosition, svgContent, idx, xPosition, lineSvg, missingChars,
                 prevConnector, lineResult>>
  /\ UNCHANGED <<simplifierVars, processorVars, widthVars>>
  /\ UNCHANGED <<captureVars, calls>>

RemoveCharacter(key) ==
  /\ Tick
  /\ \E after \in {removeCharacter(characters, metadata, key, now)} :
       /\ characters' = after.characters
       /\ metadata' = after.metadata
  /\ fontCall' = [op |-> "removeCharacter", key |-> key, time |-> now]
  /\ UNCHANGED <<storage, config, text, renderedSVG, alert, pc, lines, lineIndex,
                 yPosition, svgContent, idx, xPosition, lineSvg, missingChars,
                 prevConnector, lineResult>>
  /\ UNCHANGED <<simplifierVars, processorVars, widthVars>>
  /\ UNCHANGED <<captureVars, calls>>

Clear ==
  /\ Tick
  /\ \E after \in {clear(characters, metadata, now)} :
       /\ characters' = after.characters
       /\ metadata' = after.metadata
  /\ fontCall' = [op |-> "clear", time |-> now]
  /\ UNCHANGED <<storage, config, text, renderedSVG, alert, pc, lines, lineIndex,
                 yPosition, svgContent, idx, xPosition, lineSvg, missingChars,
                 prevConnector, lineResult>>
  /\ UNCHANGED <<simplifierVars, processorVars, widthVars>>
  /\ UNCHANGED <<captureVars, calls>>

\* importJSON called on its own
ImportJSON(file) ==
  /\ Tick
  /\ \E after \in {importJSON(characters, metadata, file, now)} :
       /\ characters' = after.characters
       /\ metadata' = after.metadata
       /\ fontCall' = [op |-> "importJSON", file |-> file, time |-> now,
                       result |-> after.ok, caller |-> "none"]
  /\ UNCHANGED <<storage, config, text, renderedSVG, alert, pc, lines, lineIndex,
                 yPosition, svgContent, idx, xPosition, lineSvg, missingChars,
                 prevConnector, lineResult>>
  /\ UNCHANGED <<simplifierVars, processorVars, widthVars>>
  /\ UNCHANGED <<captureVars, calls>>

\* the onload callback of handleDataLoad (the capture tool's importData does
\* the same): importJSON, then saveToLocalStorage and an alert on success, an
\* alert alone on failure. The callback is an event of its own: it runs when
\* no other handler is running
HandleDataLoad(file) ==
  /\ pc = "idle"
  /\ Tick
  /\ \E after \in {importJSON(characters, metadata, file, now)} :
       /\ characters' = after.characters
       /\ metadata' = after.metadata
       /\ fontCall' = [op |-> "importJSON", file |-> file, time |-> now,
                       result |-> after.ok, caller |-> "handleDataLoad"]
       /\ IF after.ok
          THEN /\ storage' = exportJSON(after.characters, after.metadata)
               /\ alert' = "Handwriting data loaded successfully!"
          ELSE /\ alert' = "Error loading data. Please check the file format."
               /\ UNCHANGED storage
  /\ UNCHANGED <<config, text, renderedSVG, pc, lines, lineIndex,
                 yPosition, svgContent, idx, xPosition, lineSvg, missingChars,
                 prevConnector, lineResult>>
  /\ UNCHANGED <<simplifierVars, processorVars, widthVars>>
  /\ UNCHANGED <<captureVars, calls>>

\* --- inputs ---

FontKeys == {KeyT, KeyH}

\* a full call of the capture tool, and a call with the optional arguments
\* left out
SetCharacterArgs ==
  { CharacterArgs(GlyphT.strokes, ScenarioBBounds, Int2Num(45), ScenarioBMetrics,
                  [entry |-> [x |-> Zero, y |-> Rat(1, 6)],
                   exit |-> [x |-> Rat(1, 3), y |-> One],
                   width |-> Rat(2, 3)]),
    CharacterArgs(GlyphH.strokes, GlyphH.bounds, Undefined, NullMetrics,
                  NullConnector) }

ImportedMetadata == Metadata(7, 8, "2.0")

\* files: not JSON; null; a number; an object without characters; an object
\* whose characters is a string; documents with and without metadata
FileUnparseable == JsonFile(FALSE, "none", "absent", << >>, "absent", ImportedMetadata)

FileNull == JsonFile(TRUE, "null", "absent", << >>, "absent", ImportedMetadata)

FileNumber == JsonFile(TRUE, "number", "absent", << >>, "absent", ImportedMetadata)

FileNoCharacters == JsonFile(TRUE, "object", "absent", << >>, "object", ImportedMetadata)

FileCharactersString ==
  JsonFile(TRUE, "object", "string", << >>, "object", ImportedMetadata)

FileH == JsonFile(TRUE, "object", "object", (KeyH :> GlyphH), "object", ImportedMetadata)

FileFlat == JsonFile(TRUE, "object", "object", (KeyT :> GlyphFlat), "absent",
                     ImportedMetadata)

FileEmpty == JsonFile(TRUE, "object", "object", << >>, "absent", ImportedMetadata)

\* {"characters": {"th": null}}
FileNullGlyph == JsonFile(TRUE, "object", "object", (KeyTH :> NullCharacter), "absent",
                          ImportedMetadata)

Files ==
  { FileUnparseable, FileNull, FileNumber, FileNoCharacters, FileCharactersString,
    FileH, FileFlat, FileEmpty, FileNullGlyph }

InitFontData ==
  /\ SimplifierIdle
  /\ ProcessorIdle
  /\ WidthIdle
  /\ characters \in { << >>, (KeyT :> GlyphT) }
  /\ config = DefaultConfig
  /\ text = <<>>
  /\ renderedSVG = NoDocument
  /\ alert = ""
  /\ RenderIdle
  /\ metadata = Metadata(0, 0, "1.0")
  /\ storage = NoStorage
  /\ now = 1
  /\ fontCall = NoCall
  /\ CaptureIdle

NextFontData ==
  \/ \E key \in FontKeys, a \in SetCharacterArgs : SetCharacter(key, a)
  \/ \E key \in FontKeys : RemoveCharacter(key)
  \/ Clear
  \/ \E file \in Files : ImportJSON(file)
  \/ \E file \in Files : HandleDataLoad(file)

SpecFontData == InitFontData /\ [][NextFontData]_vars

\* the step is a call of importJSON
ImportStep == fontCall'.op = "importJSON" /\ fontCall'.time = now

\* a malformed document: text that is not JSON, a value that is not an
\* object, or an object without a characters mapping
Malformed(file) ==
  \/ ~file.parses
  \/ file.value # "object"
  \/ file.charactersKind # "object"

\* C14: importJSON of a malformed document returns false and leaves the
\* characters and the metadata in memory exactly as they were, and its
\* callers then write nothing to local storage.
C14_MalformedImport ==
  [][ (ImportStep /\ Malformed(fontCall'.file)) =>
        /\ fontCall'.result = FALSE
        /\ characters' = characters
        /\ metadata' = metadata
        /\ storage' = storage
    ]_vars

\* a file without characters was refused by handleDataLoad while a glyph
\* was loaded
C14_Witness ==
  /\ fontCall.op = "importJSON"
  /\ fontCall.caller = "handleDataLoad"
  /\ fontCall.file = FileNoCharacters
  /\ fontCall.result = FALSE
  /\ DOMAIN characters = {KeyT}
  /\ storage = NoStorage

\* C15: a successful importJSON replaces the whole document: afterwards the
\* glyph keys are exactly the keys of the imported characters mapping (a glyph
\* stored before and absent from the import is gone), every Character is the
\* imported one, and the metadata is the imported metadata, or a fresh default
\* stamped with the time of the import when the import has none.
C15_WholeDocumentReplace ==
  [][ (ImportStep /\ fontCall'.result = TRUE) =>
        /\ ~Malformed(fontCall'.file)
        /\ DOMAIN characters' = DOMAIN fontCall'.file.characters
        /\ \A k \in DOMAIN characters' : characters'[k] = fontCall'.file.characters[k]
        /\ metadata' = IF fontCall'.file.metadataKind = "object"
                       THEN fontCall'.file.metadata
                       ELSE Metadata(now, now, "1.0")
    ]_vars

\* the third call imported the document of "h" and nothing else is stored
C15_Witness ==
  /\ fontCall.op = "importJSON"
  /\ fontCall.result = TRUE
  /\ fontCall.file = FileH
  /\ fontCall.time = 3
  /\ DOMAIN characters = {KeyH}
  /\ metadata = ImportedMetadata

\* the step is a call of setCharacter / of removeCharacter on a stored key
SetCharacterStep == fontCall'.op = "setCharacter" /\ fontCall'.time = now

RemoveStoredStep ==
  /\ fontCall'.op = "removeCharacter"
  /\ fontCall'.time = now
  /\ fontCall'.key \in DOMAIN characters

\* C17: every character write updates metadata.modified and replaces the
\* Character wholesale: after setCharacter(key, ...) the record at key is made
\* of the arguments of the call (baseline 0 when none is given) and the time of
\* the write, whatever was stored before; metadata.modified is the time of the
\* write; metadata.created, metadata.version and the records of all other keys
\* are unchanged. removeCharacter of a stored key removes that key only and
\* updates metadata.modified.
C17_CharacterWrite ==
  [][ /\ SetCharacterStep =>
           /\ DOMAIN characters' = DOMAIN characters \cup {fontCall'.key}
           /\ characters'[fontCall'.key] =
                [strokes |-> fontCall'.args.strokes,
                 bounds |-> fontCall'.args.bounds,
                 baseline |-> IF fontCall'.args.baseline \in {Undefined, Zero}
                              THEN Zero ELSE fontCall'.args.baseline,
                 metrics |-> fontCall'.args.metrics,
                 connectors |-> fontCall'.args.connectors,
                 timestamp |-> now]
           /\ \A k \in DOMAIN characters \ {fontCall'.key} :
                 characters'[k] = characters[k]
           /\ metadata' = Metadata(metadata.created, now, metadata.version)
      /\ RemoveStoredStep =>
           /\ DOMAIN characters' = DOMAIN characters \ {fontCall'.key}
           /\ \A k \in DOMAIN characters' : characters'[k] = characters[k]
           /\ metadata' = Metadata(metadata.created, now, metadata.version)
    ]_vars

\* the second call wrote "t" without metrics or connectors
C17_Witness ==
  /\ fontCall.op = "setCharacter"
  /\ fontCall.key = KeyT
  /\ fontCall.time = 2
  /\ fontCall.args.metrics = NullMetrics
  /\ characters[KeyT].metrics = NullMetrics
  /\ characters[KeyT].timestamp = 2
  /\ metadata = Metadata(0, 2, "1.0")

\* a step of renderText from rest: no FontData call and no change of the config
RenderTextStep == pc = "idle" /\ fontCall' = fontCall /\ config' = config

\* the locals of generateTextSVG and renderLine hold nothing
NoLayout ==
  /\ lines = <<>>
  /\ svgContent = <<>>
  /\ lineSvg = <<>>
  /\ missingChars = <<>>
  /\ xPosition = Zero

\* C16: renderText reports a precondition failure, does no layout work and
\* emits no geometry when the text is empty, and when the font document has no
\* characters (text "t", nothing loaded): generateTextSVG and renderLine are
\* not entered, and the rendered output and the latest line result stay.
C16_PreconditionFailure ==
  [][ (RenderTextStep /\ (text = <<>> \/ DOMAIN characters = {})) =>
        /\ alert' = IF text = <<>> THEN "Please enter some text to render."
                    ELSE "Please load handwriting data first."
        /\ pc' = "idle"
        /\ NoLayout'
        /\ renderedSVG' = renderedSVG
        /\ lineResult' = lineResult
    ]_vars

\* scenario D: a text and no loaded document
C16_Witness ==
  /\ alert = "Please load handwriting data first."
  /\ text = <<"t">>
  /\ DOMAIN characters = {}
  /\ pc = "idle"
  /\ renderedSVG = NoDocument

\* C18: the document generateTextSVG emits holds one metadata block and exactly
\* one geometry group per line of the text: the number of its groups is the
\* number of lines the text splits into, whatever the number of glyphs of each
\* line.
C18_OneGroupPerLine ==
  renderedSVG # NoDocument =>
    /\ renderedSVG.metadata.generator = "Handwriting SVG Generator"
    /\ GlyphCount(renderedSVG.content) = Len(SplitLines(text))

\* the strokes of the stored glyph that have at least one point
DrawnStrokes(charData) ==
  {s \in 1..Len(charData.strokes) : Len(charData.strokes[s].points) >= 1}

\* an iteration of renderLine on a stored glyph that it lays out
GlyphStep ==
  /\ InLoop
  /\ GlyphKey # <<" ">>
  /\ getCharacter(GlyphKey) # NullCharacter
  /\ pc' = "line"

\* C20: a stroke with exactly one point gets no path element and is rendered
\* as a dot: every stroke of a stored glyph that has a point shows in the
\* group of the glyph, so the group has as many elements as the glyph has
\* such strokes.
C20_DotForSinglePoint ==
  [][ GlyphStep =>
        Len(lineSvg'[Len(lineSvg')].paths)
          = Cardinality(DrawnStrokes(characters[GlyphKey]))
    ]_vars

\* ------------------------------------------------------------------------
\* The renderer page: render requests among the other events of the page
\* ------------------------------------------------------------------------

\* the change listener of the connectCursive checkbox
SetConnectCursive(checked) ==
  /\ pc = "idle"
  /\ config' = [config EXCEPT !.connectCursive = checked]
  /\ UNCHANGED <<characters, text, renderedSVG, alert, pc, lines, lineIndex,
                 yPosition, svgContent, idx, xPosition, lineSvg, missingChars,
                 prevConnector, lineResult>>
  /\ UNCHANGED <<simplifierVars, processorVars, widthVars>>
  /\ UNCHANGED fontVars
  /\ UNCHANGED <<captureVars, calls>>

\* the input listener of the variation slider
SetVariation(value) ==
  /\ pc = "idle"
  /\ config' = [config EXCEPT !.variation = value]
  /\ UNCHANGED <<characters, text, renderedSVG, alert, pc, lines, lineIndex,
                 yPosition, svgContent, idx, xPosition, lineSvg, missingChars,
                 prevConnector, lineResult>>
  /\ UNCHANGED <<simplifierVars, processorVars, widthVars>>
  /\ UNCHANGED fontVars
  /\ UNCHANGED <<captureVars, calls>>

\* a file whose "h" has no strokes
FileBroken ==
  JsonFile(TRUE, "object", "object", (KeyT :> GlyphT) @@ (KeyH :> GlyphBroken),
           "absent", ImportedMetadata)

PageFiles == {FileNoCharacters, FileBroken}

PageTexts == { <<>>, <<"t", " ", "h">>, <<"h", NewLine, "t">> }

PageVariations == {Zero, Int2Num(2)}

\* the page after initializeRenderer: the document is the one found in local
\* storage, or an empty one when nothing is stored; the clock has one
\* reading left, so one file is loaded in a session
InitPage ==
  /\ SimplifierIdle
  /\ ProcessorIdle
  /\ WidthIdle
  /\ characters \in Documents
  /\ config = RenderConfig(Int2Num(60), Int2Num(5), Rat(3, 2), Zero, TRUE)
  /\ text \in PageTexts
  /\ renderedSVG = NoDocument
  /\ alert = ""
  /\ RenderIdle
  /\ metadata = Metadata(0, 0, "1.0")
  /\ storage = IF DOMAIN characters = {} THEN NoStorage
               ELSE [metadata |-> metadata, characters |-> characters,
                     present |-> TRUE]
  /\ now = MaxTime - 1
  /\ fontCall = NoCall
  /\ CaptureIdle

NextPage ==
  \/ RenderText
  \/ RenderSpace
  \/ RenderMissing
  \/ \E rnd \in RenderDraws : RenderGlyph(rnd)
  \/ RenderThrows
  \/ RenderLineReturn
  \/ \E file \in PageFiles : HandleDataLoad(file)
  \/ \E checked \in BOOLEAN : SetConnectCursive(checked)
  \/ \E value \in PageVariations : SetVariation(value)

SpecPage == InitPage /\ [][NextPage]_vars

\* the step stores a document as the displayed output
OutputReplaced == renderedSVG' # renderedSVG

\* the step is the return of the last line of the text: the document is the
\* content of every line of the text
CompleteDocumentStep ==
  /\ pc = "line"
  /\ pc' = "idle"
  /\ lineIndex + 1 = Len(lines)
  /\ lines = SplitLines(text)
  /\ idx >= Len(CurrentLine)
  /\ renderedSVG' = TextDocument(svgContent \o lineSvg)

\* the step ends a render request without a document
FailedRenderStep ==
  /\ pc' = "idle"
  /\ \/ pc = "line" /\ alert' = "Error rendering text: "
     \/ RenderTextStep /\ PreconditionAlert # "" /\ alert' = PreconditionAlert

\* C19: a render request runs to completion before any other event of the
\* page is handled: while a render is in progress the font document, the
\* stored copy, the configuration and the text do not change; the displayed
\* output is replaced only by the complete document of all lines; and a
\* request that fails its preconditions or throws leaves the displayed
\* output as it was.
C19_AtomicRender ==
  [][ /\ pc = "line" =>
           /\ characters' = characters
           /\ metadata' = metadata
           /\ storage' = storage
           /\ fontCall' = fontCall
           /\ config' = config
           /\ text' = text
      /\ OutputReplaced => CompleteDocumentStep
      /\ FailedRenderStep => renderedSVG' = renderedSVG
    ]_vars

\* C19 witness: a render threw after an earlier one had displayed a document
\* and a file had been loaded in between; the earlier document is displayed
C19_Witness ==
  /\ pc = "idle"
  /\ alert = "Error rendering text: "
  /\ renderedSVG # NoDocument
  /\ fontCall # NoCall

\* ------------------------------------------------------------------------
\* hasCharacter and getCharacter
\* ------------------------------------------------------------------------

\* the keys a call can name: the keys of the model's documents
LookupKeys == {KeyT, KeyH, KeyTH, KeySpace}

\* C30: after any sequence of setCharacter, removeCharacter, clear and
\* successful importJSON calls, hasCharacter(key) is true exactly when
\* getCharacter(key) returns a Character, for every key.
C30_HasIffGet ==
  \A key \in LookupKeys : hasCharacter(key) <=> getCharacter(key) # NullCharacter

\* ------------------------------------------------------------------------
\* The tokens of renderLine
\* ------------------------------------------------------------------------

\* an iteration of the loop of renderLine that does not throw
LoopStep == InLoop /\ pc' = "line"

\* the token of the iteration is a space; it is a key the document lacks
SpaceToken == GlyphKey = <<" ">>

AbsentToken == GlyphKey # <<" ">> /\ GlyphKey \notin DOMAIN characters

\* C22: a space token advances the cursor by exactly fontSize * 0.3 and emits
\* no geometry, also when a glyph is stored under " "; a token whose key is
\* absent from the document advances the cursor by exactly fontSize * 0.5,
\* emits no geometry and records the key as missing; after either the loop
\* goes on at the next token of the line.
C22_SpaceAndMissing ==
  [][ /\ (LoopStep /\ SpaceToken) =>
           /\ xPosition' = Add(xPosition, Mul(config.fontSize, Rat(3, 10)))
           /\ lineSvg' = lineSvg
           /\ missingChars' = missingChars
           /\ idx' = idx + 1
      /\ (InLoop /\ AbsentToken) =>
           /\ xPosition' = Add(xPosition, Mul(config.fontSize, Rat(1, 2)))
           /\ lineSvg' = lineSvg
           /\ missingChars' = Append(missingChars, GlyphKey)
           /\ pc' = "line"
           /\ idx' = idx + 1
           /\ lines' = lines /\ lineIndex' = lineIndex
    ]_vars

\* C22 witness: the line " ht" laid out from a document that stores only "t":
\* the space advanced 18 and the missing "h" 30 from the start 50, and the "t"
\* after them was laid out
C22_Witness ==
  /\ pc = "line"
  /\ CurrentLine = <<" ", "h", "t">>
  /\ DOMAIN characters = {KeyT}
  /\ config.fontSize = Int2Num(60)
  /\ idx = 3
  /\ missingChars = <<KeyH>>
  /\ GlyphCount(lineSvg) = 1
  /\ lineSvg[1].translate[1] = Int2Num(98)

\* the stored glyph of the token, normalized and varied under the draws rnd
VariedGlyph(rnd) ==
  LET charData == getCharacter(GlyphKey)
  IN  applyVariation(normalize(DeepCopy(charData.strokes), charData.bounds,
                               charData.metrics),
                     VariationConfig(Mul(config.variation, Rat(1, 100)),
                                     Mul(config.variation, Rat(3, 2)),
                                     Mul(config.variation, Rat(2, 100))),
                     rnd)

\* a bounding width that measures the glyph: a positive finite number
Measurable(w) == IsFinite(w) /\ Gt(w, Zero)

\* the advance of a present glyph of bounding width w: the width scaled by
\* the font size, 0.6 of the font size in its place when the glyph has no
\* measurable width, and the letter spacing
GlyphAdvance(w) ==
  Add(Mul(IF Measurable(w) THEN w ELSE Rat(6, 10), config.fontSize),
      config.letterSpacing)

\* C23: after a present glyph renderLine advances the cursor by the bounding
\* width of the varied normalized strokes times fontSize plus letterSpacing,
\* with 0.6 * fontSize for a glyph that has no measurable width; and the width
\* it returns is the sum of the advances of the tokens of the line (the
\* cursor starts at startX, and the width is the cursor minus startX).
C23_GlyphAdvance ==
  [][ /\ GlyphStep =>
           \E rnd \in RenderDraws :
             xPosition' = Add(xPosition,
                              GlyphAdvance(calculateBounds(VariedGlyph(rnd)).width))
      /\ (pc = "line" /\ ~InLoop) =>
           lineResult'.width = Sub(xPosition, StartX)
    ]_vars

\* ------------------------------------------------------------------------
\* Cursive joins
\* ------------------------------------------------------------------------

\* for each outcome of the draws: the connector of the glyph of the token and
\* the offset of its baseline
TokenConnectors ==
  { [connector |-> extractConnectors(VariedGlyph(rnd)),
     yOffset |-> Sub(yPosition, Mul(getBaselineNorm(getCharacter(GlyphKey)),
                                    config.fontSize))] : rnd \in RenderDraws }

\* the glyph of the token has a connector (whatever the draws: a connector
\* is null only for a glyph without strokes or with a first or last stroke
\* without points)
HasConnector(found) == \A f \in found : f.connector # NullConnector

\* the iteration wrote a joining segment before the glyph
Joined == Len(lineSvg') = Len(lineSvg) + 2

\* the elements of an output that are joining segments
JoinCount(svg) == Len(svg) - GlyphCount(svg)

\* C24: a joining segment is emitted for a present glyph exactly when
\* connectCursive is enabled, the glyph before it on the line left a
\* connector and the glyph has a connector; it runs from the absolute exit
\* point kept from that glyph (its cursor and baseline offset plus its exit
\* times fontSize) to the absolute entry point of the glyph, with the stroke
\* width kept from that glyph. With connectCursive disabled no output holds a
\* joining segment, and the first glyph of a line gets none.
C24_CursiveJoin ==
  [][ /\ GlyphStep =>
           \E found \in {TokenConnectors} :
             /\ Joined <=> (/\ config.connectCursive
                            /\ prevConnector # NullPrevConnector
                            /\ HasConnector(found))
             /\ ~Joined => lineSvg' = lineSvg \o <<lineSvg'[Len(lineSvg')]>>
             /\ Joined =>
                  /\ \E f \in found :
                       lineSvg'[Len(lineSvg) + 1] =
                         JoinElement(prevConnector.exitAbsX, prevConnector.exitAbsY,
                           Add(xPosition, Mul(f.connector.entry.x, config.fontSize)),
                           Add(f.yOffset, Mul(f.connector.entry.y, config.fontSize)),
                           prevConnector.strokeWidth)
                  /\ lineSvg'[Len(lineSvg) + 2].kind = "g"
             /\ HasConnector(found) =>
                  \E f \in found :
                    /\ prevConnector'.exitAbsX =
                         Add(xPosition, Mul(f.connector.exit.x, config.fontSize))
                    /\ prevConnector'.exitAbsY =
                         Add(f.yOffset, Mul(f.connector.exit.y, config.fontSize))
             /\ ~HasConnector(found) => prevConnector' = NullPrevConnector
             /\ GlyphCount(lineSvg) = 0 => ~Joined
      /\ (pc = "line" /\ prevConnector # NullPrevConnector) => GlyphCount(lineSvg) >= 1
      /\ ~config.connectCursive =>
           /\ JoinCount(lineSvg) = 0
           /\ JoinCount(svgContent) = 0
           /\ renderedSVG' # renderedSVG => JoinCount(renderedSVG'.content) = 0
    ]_vars

\* C24 witness: the line "tt" with connectCursive enabled: the second "t" is
\* joined to the first
C24_Witness ==
  /\ pc = "line"
  /\ CurrentLine = <<"t", "t">>
  /\ config.connectCursive
  /\ idx = 2
  /\ Len(lineSvg) = 3
  /\ lineSvg[1].kind = "g"
  /\ lineSvg[2].kind = "path"
  /\ lineSvg[3].kind = "g"

\* ------------------------------------------------------------------------
\* Lines
\* ------------------------------------------------------------------------

\* renderLine returns and generateTextSVG calls it for the next line
NextLineStep == pc = "line" /\ ~InLoop /\ lineIndex' = lineIndex + 1

\* C25: generateTextSVG lays the lines of the text out in input order, each
\* from the horizontal origin 50 with fresh line state (index, cursor, output,
\* previous connector), so no token holds a line break and no line starts with
\* a joining segment; the baseline of line k (0-based) is
\* (k + 1) * fontSize * lineHeight, and the height of the document is the
\* number of lines times fontSize * lineHeight plus 100.
C25_LineLayout ==
  [][ /\ pc = "line" =>
           /\ lines = SplitLines(text)
           /\ lineIndex < Len(lines)
           /\ yPosition = Mul(Int2Num(lineIndex + 1),
                              Mul(config.fontSize, config.lineHeight))
           /\ idx = 0 =>
                /\ xPosition = StartX
                /\ lineSvg = <<>>
                /\ prevConnector = NullPrevConnector
           /\ lineSvg # <<>> => lineSvg[1].kind = "g"
           /\ InLoop => \A k \in 1..Len(GlyphKey) : GlyphKey[k] # NewLine
      /\ NextLineStep =>
           /\ pc' = "line"
           /\ idx' = 0
           /\ lineIndex' < Len(lines)
           /\ lines' = lines
           /\ svgContent' = svgContent \o lineSvg
      /\ OutputReplaced =>
           /\ renderedSVG'.content = svgContent \o lineSvg
           /\ renderedSVG'.height =
                Add(Mul(Int2Num(Len(SplitLines(text))),
                        Mul(config.fontSize, config.lineHeight)),
                    Int2Num(100))
    ]_vars

\* C25 witness: the second line of "t", line break, "t" is laid out: the
\* first line is in the content and the glyph of the second starts at the
\* origin 50 with the baseline 180 (fontSize 60, lineHeight 1.5)
C25_Witness ==
  /\ pc = "line"
  /\ text = <<"t", NewLine, "t">>
  /\ config.fontSize = Int2Num(60)
  /\ config.variation = Zero
  /\ lineIndex = 1
  /\ yPosition = Int2Num(180)
  /\ idx = 1
  /\ Len(svgContent) = 1
  /\ Len(lineSvg) = 1
  /\ lineSvg[1].translate[1] = Int2Num(50)

\* ------------------------------------------------------------------------
\* Determinism without variation
\* ------------------------------------------------------------------------

\* outcomes of the four Math.random() calls of one applyVariation: all low,
\* all high, and each call low among high ones
AnyDraws ==
  { <<Zero, Zero, Zero, Zero>>,
    <<Rat(3, 4), Rat(3, 4), Rat(3, 4), Rat(3, 4)>>,
    <<Zero, Rat(3, 4), Rat(3, 4), Rat(3, 4)>>,
    <<Rat(3, 4), Zero, Rat(3, 4), Rat(3, 4)>>,
    <<Rat(3, 4), Rat(3, 4), Zero, Rat(3, 4)>>,
    <<Rat(3, 4), Rat(3, 4), Rat(3, 4), Zero>> }

\* the next token of the line is a stored glyph that can be laid out
AtGlyph ==
  /\ InLoop
  /\ GlyphKey # <<" ">>
  /\ getCharacter(GlyphKey) # NullCharacter
  /\ ~Throws(getCharacter(GlyphKey))

\* what the iteration lays out under each of the outcomes
LayoutsOfToken == { GlyphLayout(rnd) : rnd \in AnyDraws \cup RenderDraws }

\* C26: with variation = 0 the geometry is a function of the document, the
\* text and the config: whatever the random source gives, an iteration lays
\* out the same elements, connector and cursor; a render starts from no state
\* of the renders before it; and a render of the same document, text and
\* config gives the content, width and height of the render before.
C26_DeterministicWithoutVariation ==
  [][ config.variation = Zero =>
        /\ AtGlyph => Cardinality(LayoutsOfToken) = 1
        /\ pc = "idle" => NoLayout
        /\ (renderedSVG # NoDocument /\ pc = "line" /\ pc' = "idle"
            /\ alert' = alert) =>
             /\ renderedSVG'.content = renderedSVG.content
             /\ renderedSVG'.width = renderedSVG.width
             /\ renderedSVG'.height = renderedSVG.height
    ]_vars

\* C26 witness: with variation = 0 the line "tt" was rendered before, and in
\* the render that follows the first "t" is laid out and the second is next
C26_Witness ==
  /\ config.variation = Zero
  /\ renderedSVG # NoDocument
  /\ GlyphCount(renderedSVG.content) = 2
  /\ pc = "line"
  /\ CurrentLine = <<"t", "t">>
  /\ idx = 1
  /\ GlyphCount(lineSvg) = 1

\* ------------------------------------------------------------------------
\* Termination of the layout loop
\* ------------------------------------------------------------------------

\* where a render request stands: in which line, at which index
renderPosition == <<pc, lineIndex, idx>>

\* a step of a render request that has started: every such step of Next moves
\* the position (an iteration the index, a return the line or to "idle", a
\* throw to "idle")
RenderStep ==
  /\ pc = "line"
  /\ pc' \in {"line", "idle"}
  /\ lineIndex' \in 0..Len(lines)
  /\ idx' \in 0..Len(text)

\* renderText is one synchronous call: once it has started, its next step is
\* taken
SpecFair == Init /\ [][Next]_vars /\ WF_renderPosition(RenderStep)

\* C27: the index of renderLine advances by 1 or 2 at every iteration, by 2
\* only when both characters of the token lie in the line, and never passes
\* the end of the line, so the tokens partition the line and renderLine
\* returns with the index at the end of the line; and the loop terminates:
\* every render request that has started comes to its end.
C27_LoopTerminates ==
  /\ [][ /\ pc = "line" => idx <= Len(CurrentLine)
         /\ LoopStep =>
              /\ idx' - idx \in {1, 2}
              /\ idx' - idx = Len(GlyphKey)
              /\ idx' <= Len(CurrentLine)
              /\ GlyphKey = SubSeq(CurrentLine, idx + 1, idx')
              /\ lines' = lines /\ lineIndex' = lineIndex
         /\ (pc = "line" /\ ~InLoop) => idx = Len(CurrentLine)
         /\ pc = "line" => renderPosition' # renderPosition
       ]_vars
  /\ (pc = "line") ~> (pc = "idle")

\* C27 witness: the line "tht" from the document with the ligature: the loop
\* took the token "th" and then the token "t", and has reached the end
C27_Witness ==
  /\ pc = "line"
  /\ CurrentLine = <<"t", "h", "t">>
  /\ KeyTH \in DOMAIN characters
  /\ idx = 3
  /\ GlyphCount(lineSvg) = 2

\* ------------------------------------------------------------------------
\* Joins across word gaps
\* ------------------------------------------------------------------------

\* the iteration is on a space, or on a key getCharacter has no glyph for
GapStep ==
  /\ LoopStep
  /\ \/ GlyphKey = <<" ">>
     \/ getCharacter(GlyphKey) = NullCharacter

\* C28: an iteration on a space or on a missing glyph leaves the previous
\* connector of renderLine as it was, so with connectCursive enabled the first
\* present glyph after a run of spaces and missing glyphs is joined to the
\* exit point of the last present glyph before the run (C24 gives the join
\* its start at the connector that is kept).
C28_ConnectorKeptAcrossGaps ==
  [][ /\ GapStep => prevConnector' = prevConnector
      /\ (GlyphStep /\ config.connectCursive /\ prevConnector # NullPrevConnector
          /\ Len(lineSvg') = Len(lineSvg) + 2) =>
           /\ lineSvg'[Len(lineSvg) + 1].kind = "path"
           /\ lineSvg'[Len(lineSvg) + 1].d[1] =
                <<"M", ToFixed2(prevConnector.exitAbsX),
                  ToFixed2(prevConnector.exitAbsY)>>
    ]_vars

\* C28 witness: the line "t t" from the document that stores only "t", with
\* connectCursive enabled and no variation: the second "t" is joined to the
\* exit of the first, (70, 105) for the first "t" at the cursor 50 with its
\* top at 45, across the space
C28_Witness ==
  /\ pc = "line"
  /\ CurrentLine = <<"t", " ", "t">>
  /\ DOMAIN characters = {KeyT}
  /\ config.connectCursive
  /\ config.variation = Zero
  /\ idx = 3
  /\ Len(lineSvg) = 3
  /\ lineSvg[2].kind = "path"
  /\ lineSvg[2].d[1] = <<"M", Int2Num(70), Int2Num(105)>>

\* ------------------------------------------------------------------------
\* The capture tool: drawing, undo, clear, load and save of a character
\* ------------------------------------------------------------------------

\* most points on the canvas, committed and being drawn together
MaxCapturePoints == 3

canvasWidth == Int2Num(450)

canvasHeight == Int2Num(350)

\* GUIDELINE_METRICS: ascender, baseline and descender as fractions of the
\* canvas height
GUIDELINE_METRICS ==
  [ascender |-> Rat(18, 100), baseline |-> Rat(66, 100), descender |-> Rat(82, 100)]

\* CHAR_SET: the keys the tool walks through, single characters and pairs
CHAR_SET == <<KeyT, KeyH, KeyTH>>

\* Math.sqrt on the squares of rationals
Sqrt(a) ==
  IF ~IsFinite(a) THEN a
  ELSE Rat(CHOOSE r \in 0..a[1] : r * r = a[1], CHOOSE r \in 1..a[2] : r * r = a[2])

\* dist2D(x1, y1, x2, y2)
dist2D(x1, y1, x2, y2) == Sqrt(Add(Sq(Sub(x2, x1)), Sq(Sub(y2, y1))))

\* p5 map(value, start1, stop1, start2, stop2)
map(value, start1, stop1, start2, stop2) ==
  Add(start2, Mul(Sub(stop2, start2), Div(Sub(value, start1), Sub(stop1, start1))))

\* p5 constrain(n, low, high)
constrain(n, low, high) == MathMax(MathMin(n, high), low)

\* the stroke startDrawing makes at the clock reading t, before its first point
CaptureStroke(pts, t) == [points |-> pts, startTime |-> t]

\* addPoint(x, y) on the stroke being drawn, elapsed being Date.now() minus
\* the start time of the stroke
addPoint(stroke, x, y, elapsed) ==
  LET pointPressure ==
        IF Len(stroke.points) > 0
        THEN LET lastPoint == stroke.points[Len(stroke.points)]
                 dist == dist2D(x, y, lastPoint.x, lastPoint.y)
                 timeDiff == Sub(elapsed, lastPoint.timestamp)
                 speed == IF Gt(timeDiff, Zero) THEN Div(dist, timeDiff) ELSE Zero
             IN  constrain(map(speed, Zero, Int2Num(2), Rat(8, 10), Rat(3, 10)),
                           Rat(3, 10), Rat(8, 10))
        ELSE Half
  IN  [stroke EXCEPT !.points = Append(@, Point(x, y, pointPressure, elapsed))]

\* Math.max(...stroke.points.map((p) => p.y)): -Infinity for no points
RECURSIVE MaxY(_)
MaxY(pts) == IF Len(pts) = 0 THEN NegInf ELSE MathMax(pts[1].y, MaxY(Tail(pts)))

RECURSIVE SumMaxY(_)
SumMaxY(strks) ==
  IF Len(strks) = 0 THEN Zero ELSE Add(MaxY(strks[1].points), SumMaxY(Tail(strks)))

\* StrokeProcessor.detectBaseline
detectBaseline(strks) ==
  IF Len(strks) = 0 THEN Zero ELSE Div(SumMaxY(strks), Int2Num(Len(strks)))

\* the metrics saveCurrentCharacter stores, in the fields normalize and the
\* renderer read
CaptureMetrics ==
  Metrics(Mul(GUIDELINE_METRICS.ascender, canvasHeight),
          Mul(GUIDELINE_METRICS.baseline, canvasHeight),
          Mul(Sub(GUIDELINE_METRICS.descender, GUIDELINE_METRICS.ascender),
              canvasHeight))

\* currentStrokes.map((stroke) => ({ points: simplifyStroke(stroke.points, 2) }))
SimplifiedStrokes(strks) ==
  [s \in 1..Len(strks) |-> Stroke(simplifyStroke(strks[s].points, Int2Num(2)))]

\* the StrokeProcessor calls of saveCurrentCharacter, in order
SaveCalls ==
  <<"calculateBounds", "detectBaseline", "simplifyStroke", "normalize",
    "extractConnectors">>

\* CHAR_SET.indexOf(char) + 1, 0 when the key is not in the set
IndexOf(char) ==
  IF \E k \in 1..Len(CHAR_SET) : CHAR_SET[k] = char
  THEN CHOOSE k \in 1..Len(CHAR_SET) : CHAR_SET[k] = char
  ELSE 0

\* the strokes loadCharacter puts on the canvas for a key of the document chars
LoadedStrokes(chars, char) ==
  IF char \in DOMAIN chars /\ chars[char] # NullCharacter
  THEN DeepCopy(chars[char].strokes)
  ELSE <<>>

\* points on the canvas
CanvasPoints ==
  Len(AllPoints(currentStrokes)) + Len(currentStroke.points)

\* startDrawing / startDrawingAt
StartDrawingAt(x, y) ==
  /\ Len(AllPoints(currentStrokes)) < MaxCapturePoints
  /\ isDrawing' = TRUE
  /\ currentStroke' = addPoint(CaptureStroke(<<>>, now), x, y, Zero)
  /\ UNCHANGED <<currentChar, currentStrokes, calls>>
  /\ UNCHANGED <<simplifierVars, processorVars, widthVars>>
  /\ UNCHANGED rendererVars
  /\ UNCHANGED fontVars

\* mousePressed: startDrawing when the mouse is on the canvas
MousePressed(mouseX, mouseY) ==
  /\ ~(Lt(mouseX, Zero) \/ Gt(mouseX, canvasWidth)
       \/ Lt(mouseY, Zero) \/ Gt(mouseY, canvasHeight))
  /\ StartDrawingAt(mouseX, mouseY)

\* mouseDragged, handleTouchMove and handlePointerMove: continueDrawing while
\* a stroke is being drawn
ContinueDrawing(x, y, delay) ==
  /\ isDrawing
  /\ currentStroke # NoStroke
  /\ CanvasPoints < MaxCapturePoints
  /\ currentStroke' =
       addPoint(currentStroke, x, y,
                Add(currentStroke.points[Len(currentStroke.points)].timestamp, delay))
  /\ UNCHANGED <<currentChar, currentStrokes, isDrawing, calls>>
  /\ UNCHANGED <<simplifierVars, processorVars, widthVars>>
  /\ UNCHANGED rendererVars
  /\ UNCHANGED fontVars

\* variant: a stroke of one point is committed as a dot
EndDrawingKeepsDots ==
  /\ isDrawing
  /\ IF currentStroke = NoStroke \/ Len(currentStroke.points) < 1
     THEN UNCHANGED currentStrokes
     ELSE currentStrokes' = Append(currentStrokes, currentStroke)
  /\ currentStroke' = NoStroke
  /\ isDrawing' = FALSE
  /\ UNCHANGED <<currentChar, calls>>
  /\ UNCHANGED <<simplifierVars, processorVars, widthVars>>
  /\ UNCHANGED rendererVars
  /\ UNCHANGED fontVars

\* mouseReleased, handleTouchEnd, handlePointerUp, handlePointerCancel and
\* handlePointerLeave: endDrawing while a stroke is being drawn
EndDrawing ==
  /\ isDrawing
  /\ IF currentStroke = NoStroke \/ Len(currentStroke.points) < 2
     THEN UNCHANGED currentStrokes
     ELSE currentStrokes' = Append(currentStrokes, currentStroke)
  /\ currentStroke' = NoStroke
  /\ isDrawing' = FALSE
  /\ UNCHANGED <<currentChar, calls>>
  /\ UNCHANGED <<simplifierVars, processorVars, widthVars>>
  /\ UNCHANGED rendererVars
  /\ UNCHANGED fontVars

\* the click listener of the clear button
ClearStrokes ==
  /\ currentStrokes' = <<>>
  /\ UNCHANGED <<currentChar, currentStroke, isDrawing, calls>>
  /\ UNCHANGED <<simplifierVars, processorVars, widthVars>>
  /\ UNCHANGED rendererVars
  /\ UNCHANGED fontVars

\* the click listener of the undo button
Undo ==
  /\ Len(currentStrokes) > 0
  /\ currentStrokes' = SubSeq(currentStrokes, 1, Len(currentStrokes) - 1)
  /\ UNCHANGED <<currentChar, currentStroke, isDrawing, calls>>
  /\ UNCHANGED <<simplifierVars, processorVars, widthVars>>
  /\ UNCHANGED rendererVars
  /\ UNCHANGED fontVars

\* loadCharacter(char): from the character input, the next button or a button
\* of the grid
LoadCharacter(char) ==
  /\ currentChar' = char
  /\ currentStrokes' = LoadedStrokes(characters, char)
  /\ UNCHANGED <<currentStroke, isDrawing, calls>>
  /\ UNCHANGED <<simplifierVars, processorVars, widthVars>>
  /\ UNCHANGED rendererVars
  /\ UNCHANGED fontVars

\* saveCurrentCharacter: an alert when nothing is drawn; otherwise
\* setCharacter, saveToLocalStorage and loadCharacter of the next key of
\* CHAR_SET, when there is one
SaveCurrentCharacter ==
  IF Len(currentStrokes) = 0
  THEN /\ alert' = "Please draw something first!"
       /\ UNCHANGED <<characters, metadata, storage, now, fontCall>>
       /\ UNCHANGED <<captureVars, calls>>
       /\ UNCHANGED <<config, text, renderedSVG, pc, lines, lineIndex, yPosition,
                      svgContent, idx, xPosition, lineSvg, missingChars,
                      prevConnector, lineResult>>
       /\ UNCHANGED <<simplifierVars, processorVars, widthVars>>
  ELSE /\ Tick
       /\ \E bnds \in {calculateBounds(currentStrokes)},
             baseline \in {detectBaseline(currentStrokes)},
             simplifiedStrokes \in {SimplifiedStrokes(currentStrokes)} :
            \E normalizedForConnectors \in
                 {normalize(simplifiedStrokes, bnds, CaptureMetrics)} :
              \E connectors \in {extractConnectors(normalizedForConnectors)} :
                \E a \in {CharacterArgs(simplifiedStrokes, bnds, baseline,
                                         CaptureMetrics, connectors)} :
                  \E after \in {setCharacter(characters, metadata, currentChar, a, now)} :
                    /\ characters' = after.characters
                    /\ metadata' = after.metadata
                    /\ storage' = exportJSON(after.characters, after.metadata)
                    /\ fontCall' = [op |-> "setCharacter", key |-> currentChar,
                                    args |-> a, time |-> now]
                    /\ IF IndexOf(currentChar) < Len(CHAR_SET)
                       THEN /\ currentChar' = CHAR_SET[IndexOf(currentChar) + 1]
                            /\ currentStrokes' =
                                 LoadedStrokes(after.characters,
                                               CHAR_SET[IndexOf(currentChar) + 1])
                       ELSE UNCHANGED <<currentChar, currentStrokes>>
       /\ calls' = SaveCalls
       /\ UNCHANGED <<currentStroke, isDrawing>>
       /\ UNCHANGED <<config, text, renderedSVG, alert, pc, lines, lineIndex,
                      yPosition, svgContent, idx, xPosition, lineSvg, missingChars,
                      prevConnector, lineResult>>
       /\ UNCHANGED <<simplifierVars, processorVars, widthVars>>

\* --- inputs ---

\* positions of the pointer on the canvas, 5 apart
CapturePositions == { <<Zero, Zero>>, <<Int2Num(3), Int2Num(4)>> }

\* a position of the mouse left of the canvas
OffCanvas == <<Int2Num(-1), Zero>>

\* where the mouse is pressed
MousePositions == { <<Zero, Zero>>, OffCanvas }

\* where a touch or a pen comes down
TouchPositions == { <<Int2Num(3), Int2Num(4)>> }

\* milliseconds between two points
CaptureDelays == {Int2Num(4)}

\* the points of a stroke as the tool records it: pressed at (0, 0) and
\* dragged to (3, 4) four milliseconds later, a speed of 1.25 and a pressure
\* of 0.4875
DrawnPoints ==
  <<Point(Zero, Zero, Half, Zero),
    Point(Int2Num(3), Int2Num(4), Rat(39, 80), Int2Num(4))>>

\* the character the tool stores for that stroke: two points are left as they
\* are by simplifyStroke
DrawnCharacter ==
  StoredCharacter(
    CharacterArgs(<<Stroke(DrawnPoints)>>, Bounds(Zero, Zero, Int2Num(3), Int2Num(4)),
                  Int2Num(4), CaptureMetrics,
                  extractConnectors(normalize(<<Stroke(DrawnPoints)>>,
                                              Bounds(Zero, Zero, Int2Num(3), Int2Num(4)),
                                              CaptureMetrics))), 0)

\* the tool opened on an empty document, or on one that holds an "h" saved by
\* the tool before; the clock has one reading left, so one character is saved
\* in a session
InitCapture ==
  /\ SimplifierIdle
  /\ ProcessorIdle
  /\ WidthIdle
  /\ characters \in { << >>, (KeyH :> DrawnCharacter) }
  /\ config = DefaultConfig
  /\ text = <<>>
  /\ renderedSVG = NoDocument
  /\ alert = ""
  /\ RenderIdle
  /\ metadata = Metadata(0, 0, "1.0")
  /\ storage = IF DOMAIN characters = {} THEN NoStorage
               ELSE exportJSON(characters, metadata)
  /\ now = MaxTime - 1
  /\ fontCall = NoCall
  /\ currentChar = KeyT
  /\ currentStrokes = <<>>
  /\ currentStroke = NoStroke
  /\ isDrawing = FALSE
  /\ calls = <<>>

NextCapture ==
  \/ \E p \in MousePositions : MousePressed(p[1], p[2])
  \/ \E p \in TouchPositions : StartDrawingAt(p[1], p[2])
  \/ \E p \in CapturePositions, delay \in CaptureDelays :
       ContinueDrawing(p[1], p[2], delay)
  \/ EndDrawing
  \/ ClearStrokes
  \/ Undo
  \/ \E char \in {KeyT, KeyH} : LoadCharacter(char)
  \/ SaveCurrentCharacter

SpecCapture == InitCapture /\ [][NextCapture]_vars

\* every stroke of strks has two points or more
StrokesHaveTwoPoints(strks) ==
  \A s \in 1..Len(strks) : Len(strks[s].points) >= 2

\* every character of the document chars has a stroke, and its strokes have
\* two points or more
CharactersAreDrawn(chars) ==
  \A k \in DOMAIN chars :
    /\ chars[k] # NullCharacter
    /\ Len(chars[k].strokes) >= 1
    /\ StrokesHaveTwoPoints(chars[k].strokes)

\* C29: in a capture session that starts from a document built by
\* saveCurrentCharacter, whatever the pointer, touch, mouse, undo, clear, load
\* and save events, every stroke committed to the current stroke list has at
\* least 2 points, and every saved character, in the font and in the local
\* storage, has at least one stroke and only strokes of at least 2 points
C29_NoDotStroke ==
  /\ StrokesHaveTwoPoints(currentStrokes)
  /\ CharactersAreDrawn(characters)
  /\ storage.present => CharactersAreDrawn(storage.characters)

\* "t" was saved in the session from a stroke of three points that
\* simplification reduced to its two endpoints, and was loaded back
C29_Witness ==
  /\ KeyT \in DOMAIN characters
  /\ Len(characters[KeyT].strokes[1].points) = 2
  /\ characters[KeyT].strokes[1].points[2].timestamp = Int2Num(8)
  /\ storage.characters = characters
  /\ currentChar = KeyT
  /\ Len(currentStrokes) = Len(characters[KeyT].strokes)
  /\ ~isDrawing

\* the call at position k of the log is made after a normalize and, after
\* that, an applyVariation of the same handler
AfterNormalizeAndVariation(log, k) ==
  \E i \in 1..Len(log), j \in 1..Len(log) :
    /\ i < j
    /\ j < k
    /\ log[i] = "normalize"
    /\ log[j] = "applyVariation"

\* C21: wherever a handler calls extractConnectors, it has called normalize
\* and then applyVariation before, so that the connectors are those of the
\* normalized and varied strokes
C21_ConnectorsAfterVariation ==
  \A k \in 1..Len(calls) :
    calls[k] = "extractConnectors" => AfterNormalizeAndVariation(calls, k)

====
